---- MODULE Spec2Model ----
(***************************************************************************)
(* A model of the deduplication engine of readwise-reader-management:      *)
(* src/document_deduplicator.py (plan execution, plan rewriting, deletion  *)
(* planning, live deduplication) and the two destructive commands of       *)
(* src/cli.py.                                                             *)
(*                                                                         *)
(* Strings are sequences of tokens: a digit is a token of its own, so that *)
(* the substring tests of the code ("429" in msg, "404" in error) are      *)
(* modelled as substring tests; other text is cut into word tokens.        *)
(***************************************************************************)
EXTENDS Integers, Sequences, FiniteSets, TLC

VARIABLES
    \* ---- execute_deletion_plan: inputs and environment
    csv_file_path,              \* the plan path given by the caller
    dry_run,                    \* the dry_run argument
    batch_size,                 \* the batch_size argument
    fs,                         \* the file system: path -> content
    \* ---- execute_deletion_plan: locals
    pc,                         \* position in execute_deletion_plan
    deletion_candidates,        \* rows read with action DELETE
    i,                          \* batch start (0-based, as in range())
    j,                          \* position of doc in the batch (1-based)
    successful_deletions,
    failed_deletions,
    errors,
    successfully_deleted_ids,
    interrupted,
    deletion_successful,
    retry_count,
    result,                     \* the value returned
    \* ---- the document store, as seen from the engine
    calls,                      \* every delete call issued, in order
    intAt,                      \* the candidate in process when the flag was set,
                                \* and whether its delete call was in flight
    last_wait,                  \* the time.sleep() begun since the last delete call
    handlers,                   \* the process: signal -> handler installed
    original_handlers,          \* what signal.signal() returned at registration
    \* ---- remove_duplicates
    documents,                  \* the documents argument
    rd_dry_run,                 \* the dry_run argument
    auto_confirm,               \* the auto_confirm argument
    rd_pc,                      \* position in remove_duplicates
    analysis,                   \* what analyze_duplicates returned
    rd_next,                    \* duplicates already handed to the store
    removed_count,
    rd_failed,                  \* failed_deletions of remove_duplicates
    rd_result,                  \* the value returned
    rd_calls,                   \* every delete call issued, in order
    confirmation,               \* what the operator typed at a prompt
    \* ---- analyze_deletion_plan and export_deletion_plan
    duplicates_csv,             \* the duplicates CSV: its rows
    prefer_newer,
    plan_pc,                    \* position in the planning command
    groups,                     \* group_id -> rows, in order of first appearance
    plan_g,                     \* groups the loop has been through
    deletion_plan,
    total_to_delete,
    plan_result,                \* the value analyze_deletion_plan returned
    plan_file,                  \* the rows export_deletion_plan wrote
    \* ---- the command line
    command,
    argv,                       \* the options given, in order
    connected,                  \* what verify_connection answers
    cli_pc,                     \* position in main and in the command
    \* ---- one function of the engine called on its own
    fn,                         \* the function called
    fn_in,                      \* its argument
    fn_out,                     \* what it returned
    fn_pc                       \* "call" before the call, "done" after it

execInputs == <<csv_file_path, dry_run, batch_size>>
execLocals == <<deletion_candidates, i, j, successful_deletions, failed_deletions,
                errors, successfully_deleted_ids, interrupted,
                deletion_successful, retry_count>>
execVars == <<csv_file_path, dry_run, batch_size, fs, pc, deletion_candidates, i, j,
              successful_deletions, failed_deletions, errors,
              successfully_deleted_ids, interrupted, deletion_successful,
              retry_count, result, calls, intAt,
             last_wait, handlers, original_handlers>>

rdVars == <<documents, rd_dry_run, auto_confirm, rd_pc, analysis, rd_next,
            removed_count, rd_failed, rd_result, rd_calls, confirmation>>
planVars == <<duplicates_csv, prefer_newer, plan_pc, groups, plan_g, deletion_plan, total_to_delete,
              plan_result, plan_file>>
cliVars == <<command, argv, connected, cli_pc>>
fnVars == <<fn, fn_in, fn_out, fn_pc>>

vars == <<execVars, rdVars, planVars, cliVars, fnVars>>

\* what the steps of one function leave alone
execFrame == <<rdVars, planVars, cliVars, fnVars>>
rdFrame == <<execVars, planVars, cliVars, fnVars>>
planFrame == <<execVars, rdVars, cliVars, fnVars>>
fnFrame == <<execVars, rdVars, planVars, cliVars>>

----------------------------------------------------------------------------
(* Bounds of the model *)

\* rows in a plan file
MaxRows == 3
\* rate-limit answers the store gives in one run
MaxRateLimited == 1
\* rows in a plan file that is only previewed
MaxPreviewRows == 12
\* documents handed to remove_duplicates
MaxDocs == 4
\* rows in a duplicates CSV
MaxCsvRows == 4
\* options on a command line
MaxArgs == 2
\* rows of a plan, and documents of a library, a command is run on
MaxCliRows == 2
MaxCliDocs == 2
\* documents in a group handed to select_best_document
MaxGroup == 3
\* rows in a CSV handed to the CSV analyses
MaxSourceRows == 3

----------------------------------------------------------------------------
(* Strings as token sequences *)

\* Python's None, for a record and for a string
None == [none |-> TRUE]
NoName == <<>>

\* Python's `pat in s`
Contains(s, pat) ==
    \E k \in 0..(Len(s) - Len(pat)) :
        \A m \in 1..Len(pat) : s[k + m] = pat[m]

\* number of the first position of token t in s, 0 when absent
FirstPos(s, t) ==
    IF \E k \in 1..Len(s) : s[k] = t
    THEN CHOOSE k \in 1..Len(s) : s[k] = t /\ \A m \in 1..(k - 1) : s[m] # t
    ELSE 0

LastPos(s, t) ==
    IF \E k \in 1..Len(s) : s[k] = t
    THEN CHOOSE k \in 1..Len(s) : s[k] = t /\ \A m \in (k + 1)..Len(s) : s[m] # t
    ELSE 0

\* s.split(t)[0] and the text after the first t; k is the place of that t
BeforeAt(s, k) == IF k = 0 THEN s ELSE SubSeq(s, 1, k - 1)
AfterAt(s, k) == IF k = 0 THEN <<>> ELSE SubSeq(s, k + 1, Len(s))

BeforeFirst(s, t) == BeforeAt(s, FirstPos(s, t))
AfterFirst(s, t) == AfterAt(s, FirstPos(s, t))

\* s.strip(): blanks are the token " "
RECURSIVE LStrip(_)
LStrip(s) == IF s # <<>> /\ Head(s) = " " THEN LStrip(Tail(s)) ELSE s
RECURSIVE RStrip(_)
RStrip(s) == IF s # <<>> /\ s[Len(s)] = " " THEN RStrip(SubSeq(s, 1, Len(s) - 1)) ELSE s
Strip(s) == LStrip(RStrip(s))

S429 == <<"4", "2", "9">>
S404 == <<"4", "0", "4">>

----------------------------------------------------------------------------
(* The plan file and the document store *)

NoFile == [missing |-> TRUE]

IdA == <<"a">>
IdB == <<"b">>
\* ids are opaque strings of letters and digits: these two hold the digits
\* of an HTTP status
Id429 == <<"c", "4", "2", "9">>
Id404 == <<"d", "4", "0", "4">>

Row(a, d, g) == [action |-> a, document_id |-> d, group_id |-> g]

\* the rows a plan file is made of (the columns title, source_url and reason
\* of a row are taken to be determined by its document_id and group_id)
PlanRowSet ==
    { Row("KEEP", IdA, "1"), Row("DELETE", IdB, "1"),
      Row("DELETE", Id429, "2"), Row("DELETE", Id404, "1") }

SeqsUpTo(S, n) == UNION { [1..m -> S] : m \in 0..n }

Plans == SeqsUpTo(PlanRowSet, MaxRows)

\* plans longer than the preview of a dry run
LongPlans ==
    { [k \in 1..m |-> IF k <= keep THEN Row("KEEP", IdA, "1") ELSE Row("DELETE", IdB, "1")] :
        m \in (MaxRows + 1)..MaxPreviewRows, keep \in 0..1 }

\* the moment of the run, as strftime("%Y%m%d_%H%M%S") prints it
Now == "T1"

\* a plan as exported, and the residue of a plan an earlier run left
\* (in the same second)
ExportedPath == <<"d/", "plan", ".", "csv">>
ResiduePath == <<"plan", "_updated_", Now, ".", "csv">>

PlanPaths == { ExportedPath, ResiduePath }

\* os.path.basename: what follows the last directory token
Basename(p) ==
    LET dirs == { k \in 1..Len(p) : p[k] = "d/" }
    IN  IF dirs = {} THEN p
        ELSE SubSeq(p, (CHOOSE k \in dirs : \A m \in dirs : m <= k) + 1, Len(p))

\* os.path.splitext(p)[0]: cut at the last dot, unless it leads the name
SplitextRoot(p) ==
    IF LastPos(p, ".") > 1 THEN SubSeq(p, 1, LastPos(p, ".") - 1) ELSE p

\* f"{original_basename}_updated_{timestamp}.csv"
UpdatedPlanNameOverwrites(p) == p
UpdatedPlanName(p) == SplitextRoot(Basename(p)) \o <<"_updated_", Now, ".", "csv">>

\* f"readwise_deletion_execution_{timestamp}.json"
ReportName == <<"readwise_deletion_execution_", Now, ".", "json">>

FileNames == PlanPaths \cup { UpdatedPlanName(p) : p \in PlanPaths } \cup { ReportName }

\* what ReadwiseClient.delete_document does on one call: True on 204, False on
\* another 2xx status, an HTTPError raised on 4xx and 5xx
Answers == { "ok", "false", "e404", "e429" }

StatusOf(r) == IF r = "e429" THEN S429 ELSE S404

\* str(e) of requests' HTTPError: "<status> <kind> Error: <reason> for url: <url>"
ExceptionText(r, id) ==
    StatusOf(r) \o <<" Error", ":", " for url", ":", " /api/v3/delete/">> \o id \o <<"/">>

\* f"Document {doc['document_id']}: {error_msg}"
ErrorEntry(id, msg) == <<"Document ">> \o id \o <<":", " ">> \o msg

ApiFailure == <<"API returned failure status">>

Min(a, b) == IF a < b THEN a ELSE b

----------------------------------------------------------------------------
(* _update_deletion_plan *)

\* the document ids taken out of the error entries that hold "404":
\* error.split("Document ")[1].split(":")[0].strip()
Error404Ids(errs) ==
    { Strip(BeforeFirst(BeforeFirst(AfterFirst(errs[k], "Document "), "Document "), ":")) :
        k \in { m \in 1..Len(errs) :
                  /\ Contains(errs[m], S404)
                  /\ Contains(errs[m], <<"Document ">>)
                  /\ Contains(errs[m], <<":">>) } }

ProcessedDocumentIds(ids, errs) == ids \cup Error404Ids(errs)

IsRemainingRowKeepOnly(row, processed) == row.action = "KEEP"
IsRemainingRow(row, processed) ==
    \/ row.action = "KEEP"
    \/ row.action = "DELETE" /\ Strip(row.document_id) \notin processed

RemainingRows(rows, processed) ==
    SelectSeq(rows, LAMBDA row : IsRemainingRow(row, processed))

RemainingDeleteCount(rows) ==
    Len(SelectSeq(rows, LAMBDA row : row.action = "DELETE"))

\* the file _update_deletion_plan writes, None when it writes none
UpdateDeletionPlan(files, original_csv_path, ids, errs) ==
    LET processed == ProcessedDocumentIds(ids, errs)
        remaining == RemainingRows(files[original_csv_path].rows, processed)
    IN  IF processed = {} THEN None
        ELSE IF files[original_csv_path] = NoFile THEN None
        ELSE IF RemainingDeleteCount(remaining) = 0 THEN None
        ELSE [name |-> UpdatedPlanName(original_csv_path), rows |-> remaining]

----------------------------------------------------------------------------
(* The signals of the process, and the Retry-After header of an answer *)

\* lines 944-950: signals_to_handle where SIGHUP exists and SIGBREAK does not
signals_to_handle == { "SIGINT", "SIGTERM", "SIGHUP" }

\* the handlers of the process when execute_deletion_plan is called
HandlersBefore ==
    [sig \in signals_to_handle |->
        CASE sig = "SIGINT" -> "default_int_handler"
          [] sig = "SIGHUP" -> "handler of the caller"
          [] OTHER -> "SIG_DFL"]

\* response.headers.get('Retry-After') of the answer an exception carries
Header(text) == [present |-> TRUE, text |-> text]
NoHeader == [present |-> FALSE, text |-> <<>>]

RetryAfterHeaders ==
    { NoHeader, Header(<<"3", "0">>), Header(<<"0">>), Header(<<"-", "1">>),
      Header(<<"Wed, 21 Oct 2015 07:28:00 GMT">>) }

DigitValue(t) ==
    CASE t = "0" -> 0 [] t = "1" -> 1 [] t = "2" -> 2 [] t = "3" -> 3 [] t = "4" -> 4
      [] t = "5" -> 5 [] t = "6" -> 6 [] t = "7" -> 7 [] t = "8" -> 8 [] t = "9" -> 9
      [] OTHER -> -1

IsDigits(s) == s # <<>> /\ \A k \in 1..Len(s) : DigitValue(s[k]) >= 0

RECURSIVE NatOf(_)
NatOf(s) ==
    IF s = <<>> THEN 0 ELSE 10 * NatOf(SubSeq(s, 1, Len(s) - 1)) + DigitValue(s[Len(s)])

\* line 1120: int(retry_after); ok is FALSE where int() raises ValueError
ParsedInt(s) ==
    IF IsDigits(s) THEN [ok |-> TRUE, value |-> NatOf(s)]
    ELSE IF s # <<>> /\ Head(s) = "-" /\ IsDigits(Tail(s))
    THEN [ok |-> TRUE, value |-> 0 - NatOf(Tail(s))]
    ELSE [ok |-> FALSE, value |-> 0]

\* lines 1110-1131: found is FALSE where the function returns None
extract_retry_after(header) ==
    IF ~header.present \/ header.text = <<>> THEN [found |-> FALSE, seconds |-> 0]
    ELSE [found |-> ParsedInt(header.text).ok, seconds |-> ParsedInt(header.text).value]

\* lines 1005-1013: the time.sleep() of a rate-limited answer, in tenths of a
\* second; time.sleep() of a negative number raises ValueError
RetryWait(header, retry_after) ==
    IF retry_after.found /\ retry_after.seconds # 0
    THEN [kind |-> "retry", header |-> header, default |-> FALSE,
          tenths |-> 10 * retry_after.seconds, raises |-> retry_after.seconds < 0]
    ELSE [kind |-> "retry", header |-> header, default |-> TRUE,
          tenths |-> 600, raises |-> FALSE]

\* line 1029: time.sleep(3.5)
InterRequestWait ==
    [kind |-> "inter", header |-> NoHeader, default |-> FALSE, tenths |-> 35, raises |-> FALSE]

----------------------------------------------------------------------------
(* execute_deletion_plan *)

Candidate(row) == [document_id |-> row.document_id, group_id |-> row.group_id]

\* the DELETE rows of the plan, in file order
DeletionCandidates(rows) ==
    LET del == SelectSeq(rows, LAMBDA row : row.action = "DELETE")
    IN  [k \in 1..Len(del) |-> Candidate(del[k])]

NCand == Len(deletion_candidates)

\* batch = deletion_candidates[i:i+batch_size]
Batch == SubSeq(deletion_candidates, i + 1, Min(i + batch_size, NCand))

\* the candidate the loop body is working on
Doc == deletion_candidates[i + j]

ExecInit ==
    /\ csv_file_path \in PlanPaths
    /\ dry_run \in BOOLEAN
    /\ batch_size \in 1..2
    /\ \E content \in { [rows |-> pl] : pl \in Plans } \cup { NoFile }
                        \cup { [rows |-> pl] : pl \in IF dry_run THEN LongPlans ELSE {} } :
          \* a residue is shorter than the longest plan
          /\ (csv_file_path = ResiduePath /\ content # NoFile /\ ~dry_run)
                => Len(content.rows) < MaxRows
          /\ fs = [f \in FileNames |-> IF f = csv_file_path THEN content ELSE NoFile]
    /\ pc = "start"
    /\ deletion_candidates = <<>>
    /\ i = 0
    /\ j = 0
    /\ successful_deletions = 0
    /\ failed_deletions = 0
    /\ errors = <<>>
    /\ successfully_deleted_ids = {}
    /\ interrupted = FALSE
    /\ deletion_successful = FALSE
    /\ retry_count = 0
    /\ result = None
    /\ calls = <<>>
    /\ intAt = [k |-> 0, in_flight |-> FALSE]
    /\ last_wait = None
    /\ handlers = HandlersBefore
    /\ original_handlers = None

\* line 894: if dry_run
DryRunIgnored == FALSE
IsDryRun == dry_run

\* line 910: min(10, len(deletion_candidates))
PreviewShown(n) == Min(10, n)

\* lines 864-958: read the plan, the early returns, the accumulators, the
\* registration of signal_handler for every signal of signals_to_handle
ReadPlan ==
    /\ pc = "start"
    /\ LET file == fs[csv_file_path]
           cands == IF file = NoFile THEN <<>> ELSE DeletionCandidates(file.rows)
       IN  /\ deletion_candidates' = cands
           /\ IF file = NoFile
              THEN /\ result' = [error |-> "Failed to read CSV file"]
                   /\ pc' = "done"
              ELSE IF cands = <<>>
              THEN /\ result' = [total_candidates |-> 0, processed |-> 0,
                                 successful_deletions |-> 0, failed_deletions |-> 0,
                                 errors |-> <<>>]
                   /\ pc' = "done"
              ELSE IF IsDryRun
              THEN /\ result' = [dry_run |-> TRUE, total_candidates |-> Len(cands),
                                 preview_shown |-> PreviewShown(Len(cands))]
                   /\ pc' = "done"
              ELSE /\ result' = result
                   /\ pc' = "batch_head"
           /\ IF file = NoFile \/ cands = <<>> \/ IsDryRun
              THEN UNCHANGED <<handlers, original_handlers>>
              ELSE /\ original_handlers' = [sig \in signals_to_handle |-> handlers[sig]]
                   /\ handlers' = [sig \in DOMAIN handlers |->
                                     IF sig \in signals_to_handle THEN "signal_handler"
                                     ELSE handlers[sig]]
    /\ UNCHANGED <<execFrame, execInputs, fs, i, j, successful_deletions, failed_deletions, errors,
                   successfully_deleted_ids, interrupted, deletion_successful,
                   retry_count, calls, intAt, last_wait>>

\* lines 924-926: the handler installed for SIGINT, SIGTERM, SIGHUP, SIGBREAK
\* while the deletion loop runs
HandlersInstalled ==
    pc \in { "batch_head", "cand_head", "retry_head", "call", "in_delete",
             "retry_sleep", "after_retry", "inter_wait", "batch_tail" }

InCandidate ==
    pc \in { "retry_head", "call", "in_delete", "retry_sleep", "after_retry", "inter_wait" }

signal_handler_raises ==
    /\ HandlersInstalled
    /\ ~interrupted
    /\ interrupted' = TRUE
    /\ intAt' = [k |-> IF InCandidate THEN i + j ELSE 0, in_flight |-> pc = "in_delete"]
    /\ pc' = "raised"
    /\ UNCHANGED <<execFrame, execInputs, fs, deletion_candidates, i, j, successful_deletions,
                   failed_deletions, errors, successfully_deleted_ids,
                   deletion_successful, retry_count, result, calls,
                   last_wait, handlers, original_handlers>>

signal_handler ==
    /\ HandlersInstalled
    /\ ~interrupted
    /\ interrupted' = TRUE
    /\ intAt' = [k |-> IF InCandidate THEN i + j ELSE 0, in_flight |-> pc = "in_delete"]
    /\ UNCHANGED <<execFrame, execInputs, fs, pc, deletion_candidates, i, j, successful_deletions,
                   failed_deletions, errors, successfully_deleted_ids,
                   deletion_successful, retry_count, result, calls,
                   last_wait, handlers, original_handlers>>

\* lines 962-967: for i in range(0, len(deletion_candidates), batch_size)
BatchHead ==
    /\ pc = "batch_head"
    /\ IF i >= NCand \/ interrupted
       THEN pc' = "finally" /\ j' = j
       ELSE pc' = "cand_head" /\ j' = 0
    /\ UNCHANGED <<execFrame, execInputs, fs, deletion_candidates, i, successful_deletions,
                   failed_deletions, errors, successfully_deleted_ids, interrupted,
                   deletion_successful, retry_count, result, calls, intAt,
                   last_wait, handlers, original_handlers>>

\* lines 970-979: for doc in batch, the check of the flag, the retry locals
CandHead ==
    /\ pc = "cand_head"
    /\ IF j + 1 > Len(Batch)
       THEN /\ pc' = "batch_tail"
            /\ UNCHANGED <<j, retry_count, deletion_successful>>
       ELSE IF interrupted
       THEN /\ pc' = "batch_tail"
            /\ j' = j + 1
            /\ UNCHANGED <<retry_count, deletion_successful>>
       ELSE /\ pc' = "retry_head"
            /\ j' = j + 1
            /\ retry_count' = 0
            /\ deletion_successful' = FALSE
    /\ UNCHANGED <<execFrame, execInputs, fs, deletion_candidates, i, successful_deletions,
                   failed_deletions, errors, successfully_deleted_ids, interrupted,
                   result, calls, intAt,
                   last_wait, handlers, original_handlers>>

\* a loop that goes on after the delete was counted
RetryHeadAfterSuccess ==
    /\ pc = "retry_head"
    /\ pc' = IF ~interrupted /\ Len(calls) <= MaxRows THEN "call" ELSE "after_retry"
    /\ UNCHANGED <<execFrame, execInputs, fs, deletion_candidates, i, j, successful_deletions,
                   failed_deletions, errors, successfully_deleted_ids, interrupted,
                   deletion_successful, retry_count, result, calls, intAt,
                   last_wait, handlers, original_handlers>>

\* line 981: while not deletion_successful and not interrupted
RetryHead ==
    /\ pc = "retry_head"
    /\ pc' = IF ~deletion_successful /\ ~interrupted THEN "call" ELSE "after_retry"
    /\ UNCHANGED <<execFrame, execInputs, fs, deletion_candidates, i, j, successful_deletions,
                   failed_deletions, errors, successfully_deleted_ids, interrupted,
                   deletion_successful, retry_count, result, calls, intAt,
                   last_wait, handlers, original_handlers>>

\* line 983: the request leaves for the store
IssueDelete ==
    /\ pc = "call"
    /\ calls' = Append(calls, [k |-> i + j, id |-> Doc.document_id,
                               flag |-> interrupted, answer |-> "pending"])
    /\ pc' = "in_delete"
    /\ last_wait' = None
    /\ UNCHANGED <<execFrame, execInputs, fs, deletion_candidates, i, j, successful_deletions,
                   failed_deletions, errors, successfully_deleted_ids, interrupted,
                   deletion_successful, retry_count, result, intAt,
                   handlers, original_handlers>>

\* line 1001: if "429" in error_msg
IsRateLimit(msg) == Contains(msg, S429)

\* lines 983-1020: the store answers r and the answer is recorded
DeleteReturns(r) ==
    /\ pc = "in_delete"
    /\ calls' = [calls EXCEPT ![Len(calls)].answer = r]
    /\ LET id == Doc.document_id
           msg == ExceptionText(r, id)
       IN  IF r = "ok"
           THEN /\ successful_deletions' = successful_deletions + 1
                /\ successfully_deleted_ids' = successfully_deleted_ids \cup {id}
                /\ deletion_successful' = TRUE
                /\ pc' = "retry_head"
                /\ UNCHANGED <<failed_deletions, errors, retry_count, last_wait>>
           ELSE IF r = "false"
           THEN /\ failed_deletions' = failed_deletions + 1
                /\ errors' = Append(errors, ErrorEntry(id, ApiFailure))
                /\ deletion_successful' = TRUE
                /\ pc' = "retry_head"
                /\ UNCHANGED <<successful_deletions, successfully_deleted_ids, retry_count,
                               last_wait>>
           ELSE IF IsRateLimit(msg)
           THEN /\ retry_count < MaxRateLimited
                /\ retry_count' = retry_count + 1
                /\ \E header \in RetryAfterHeaders :
                      last_wait' = RetryWait(header, extract_retry_after(header))
                /\ pc' = IF last_wait'.raises THEN "finally" ELSE "retry_sleep"
                /\ UNCHANGED <<successful_deletions, successfully_deleted_ids,
                               failed_deletions, errors, deletion_successful>>
           ELSE /\ failed_deletions' = failed_deletions + 1
                /\ errors' = Append(errors, ErrorEntry(id, msg))
                /\ deletion_successful' = TRUE
                /\ pc' = "retry_head"
                /\ UNCHANGED <<successful_deletions, successfully_deleted_ids, retry_count,
                               last_wait>>
    /\ UNCHANGED <<execFrame, execInputs, fs, deletion_candidates, i, j, interrupted, result, intAt,
                   handlers, original_handlers>>

DeleteReturn == \E r \in Answers : DeleteReturns(r)

\* lines 1008, 1013: time.sleep(retry_after) or time.sleep(60) returns
RetrySleep ==
    /\ pc = "retry_sleep"
    /\ pc' = "retry_head"
    /\ UNCHANGED <<execFrame, execInputs, fs, deletion_candidates, i, j, successful_deletions,
                   failed_deletions, errors, successfully_deleted_ids, interrupted,
                   deletion_successful, retry_count, result, calls, intAt,
                   last_wait, handlers, original_handlers>>

\* lines 1022-1028
AfterRetry ==
    /\ pc = "after_retry"
    /\ pc' = IF interrupted THEN "batch_tail"
             ELSE IF Doc # Batch[Len(Batch)] \/ i + batch_size < NCand THEN "inter_wait"
             ELSE "cand_head"
    /\ UNCHANGED <<execFrame, execInputs, fs, deletion_candidates, i, j, successful_deletions,
                   failed_deletions, errors, successfully_deleted_ids, interrupted,
                   deletion_successful, retry_count, result, calls, intAt,
                   last_wait, handlers, original_handlers>>

\* line 1029: time.sleep(3.5)
InterWait ==
    /\ pc = "inter_wait"
    /\ pc' = "cand_head"
    /\ last_wait' = InterRequestWait
    /\ UNCHANGED <<execFrame, execInputs, fs, deletion_candidates, i, j, successful_deletions,
                   failed_deletions, errors, successfully_deleted_ids, interrupted,
                   deletion_successful, retry_count, result, calls, intAt,
                   handlers, original_handlers>>

\* lines 1031-1032 and the step of range()
BatchTail ==
    /\ pc = "batch_tail"
    /\ IF interrupted
       THEN pc' = "finally" /\ i' = i
       ELSE pc' = "batch_head" /\ i' = i + batch_size
    /\ UNCHANGED <<execFrame, execInputs, fs, deletion_candidates, j, successful_deletions,
                   failed_deletions, errors, successfully_deleted_ids, interrupted,
                   deletion_successful, retry_count, result, calls, intAt,
                   last_wait, handlers, original_handlers>>

\* the ValueError of time.sleep() is on its way out of the function
Raising == last_wait # None /\ last_wait.raises

\* the handlers put back after the loop instead of in a finally clause: an
\* exception raised in the loop leaves them installed
RestoreAfterLoop ==
    /\ pc = "finally"
    /\ handlers' = IF Raising THEN handlers
                   ELSE [sig \in DOMAIN handlers |->
                           IF sig \in DOMAIN original_handlers THEN original_handlers[sig]
                           ELSE handlers[sig]]
    /\ IF Raising
       THEN pc' = "raised" /\ result' = [raised |-> "ValueError"]
       ELSE pc' = "report" /\ result' = result
    /\ UNCHANGED <<execFrame, execInputs, fs, deletion_candidates, i, j, successful_deletions,
                   failed_deletions, errors, successfully_deleted_ids, interrupted,
                   deletion_successful, retry_count, calls, intAt,
                   last_wait, original_handlers>>

\* lines 1034-1041: every handler of original_handlers is put back; an
\* exception raised in the loop goes on to the caller afterwards
Finally ==
    /\ pc = "finally"
    /\ handlers' = [sig \in DOMAIN handlers |->
                      IF sig \in DOMAIN original_handlers THEN original_handlers[sig]
                      ELSE handlers[sig]]
    /\ IF Raising
       THEN pc' = "raised" /\ result' = [raised |-> "ValueError"]
       ELSE pc' = "report" /\ result' = result
    /\ UNCHANGED <<execFrame, execInputs, fs, deletion_candidates, i, j, successful_deletions,
                   failed_deletions, errors, successfully_deleted_ids, interrupted,
                   deletion_successful, retry_count, calls, intAt,
                   last_wait, original_handlers>>

\* a report that always says COMPLETED
CompletionStatusAlwaysCompleted == "COMPLETED"

\* line 1044
CompletionStatus == IF interrupted THEN "INTERRUPTED" ELSE "COMPLETED"

\* line 1064: if not dry_run and (successfully_deleted_ids or len(errors) > 0)
SavesUpdatedPlanOnlyAfterSuccess == ~dry_run /\ successfully_deleted_ids # {}
SavesUpdatedPlan == ~dry_run /\ (successfully_deleted_ids # {} \/ Len(errors) > 0)

NewPlan ==
    IF SavesUpdatedPlan
    THEN UpdateDeletionPlan(fs, csv_file_path, successfully_deleted_ids, errors)
    ELSE None

NewPlanFile == IF NewPlan = None THEN NoName ELSE NewPlan.name

ReportData ==
    [completion_status |-> CompletionStatus, interrupted |-> interrupted,
     total_candidates |-> NCand, successful_deletions |-> successful_deletions,
     failed_deletions |-> failed_deletions, errors |-> errors,
     updated_plan_file |-> NewPlanFile]

\* lines 1043-1108: the updated plan, the execution report, the result
Report ==
    /\ pc = "report"
    /\ fs' = [f \in FileNames |->
                IF f = ReportName THEN [report |-> ReportData]
                ELSE IF NewPlan # None /\ f = NewPlan.name THEN [rows |-> NewPlan.rows]
                ELSE fs[f]]
    /\ result' = [total_candidates |-> NCand,
                  processed |-> successful_deletions + failed_deletions,
                  successful_deletions |-> successful_deletions,
                  failed_deletions |-> failed_deletions,
                  errors |-> errors,
                  report_file |-> ReportName,
                  updated_plan_file |-> NewPlanFile,
                  interrupted |-> interrupted,
                  completion_status |-> CompletionStatus]
    /\ pc' = "done"
    /\ UNCHANGED <<execFrame, execInputs, deletion_candidates, i, j, successful_deletions,
                   failed_deletions, errors, successfully_deleted_ids, interrupted,
                   deletion_successful, retry_count, calls, intAt,
                   last_wait, handlers, original_handlers>>

ExecNext ==
    \/ ReadPlan
    \/ signal_handler
    \/ BatchHead
    \/ CandHead
    \/ RetryHead
    \/ IssueDelete
    \/ DeleteReturn
    \/ RetrySleep
    \/ AfterRetry
    \/ InterWait
    \/ BatchTail
    \/ Finally
    \/ Report

----------------------------------------------------------------------------
(* normalize_url *)

\* str.lower(), token by token
LowerToken(t) ==
    CASE t = "EX.COM" -> "ex.com"
      [] t = "YES" -> "yes"
      [] t = "DELETE" -> "delete"
      [] t = "%3D" -> "%3d"
      [] OTHER -> t

Lower(s) == [k \in 1..Len(s) |-> LowerToken(s[k])]

\* s.split(t): k is the place of the first t in s
RECURSIVE Split(_, _)
SplitAt(s, t, k) ==
    IF k = 0 THEN <<s>>
    ELSE <<SubSeq(s, 1, k - 1)>> \o Split(SubSeq(s, k + 1, Len(s)), t)

Split(s, t) == SplitAt(s, t, FirstPos(s, t))

\* urllib.parse.unquote: the percent escapes of "&" and "="
UnquoteToken(t) ==
    CASE t = "%26" -> "&"
      [] t = "%3d" -> "="
      [] t = "%3D" -> "="
      [] OTHER -> t

Unquote(s) == [k \in 1..Len(s) |-> UnquoteToken(s[k])]

\* lines 28-32
tracking_params ==
    { <<"utm_source">>, <<"utm_medium">>, <<"utm_campaign">>, <<"utm_term">>,
      <<"utm_content">>, <<"fbclid">>, <<"gclid">>, <<"msclkid">>, <<"ref">>,
      <<"source">>, <<"campaign">>, <<"medium">>, <<"term">>, <<"content">>,
      <<"mc_cid">>, <<"mc_eid">>, <<"_ga">>, <<"_gl">> }

\* parse_qs: a name=value pair, k the place of its first "="; a pair without
\* "=" or with an empty value is dropped, names and values are unquoted
IsPairAt(nv, k) == k > 0 /\ k < Len(nv)

PairAt(nv, k) ==
    [name |-> Unquote(SubSeq(nv, 1, k - 1)), value |-> Unquote(SubSeq(nv, k + 1, Len(nv)))]

PairsOf(nvs) == [k \in 1..Len(nvs) |-> PairAt(nvs[k], FirstPos(nvs[k], "="))]

QueryPairs(query) ==
    PairsOf(SelectSeq(Split(query, "&"), LAMBDA nv : IsPairAt(nv, FirstPos(nv, "="))))

Printed(pairs) == [k \in 1..Len(pairs) |-> pairs[k].name \o <<"=">> \o pairs[k].value]

\* lines 42-44: each pair printed as f"{k}={v}", the values of one name
\* together at the place of its first pair
RECURSIVE PartsByName(_, _)
PartsByName(kept, done) ==
    IF kept = <<>> THEN <<>>
    ELSE IF Head(kept).name \in done THEN PartsByName(Tail(kept), done)
    ELSE Printed(SelectSeq(kept, LAMBDA p : p.name = Head(kept).name))
             \o PartsByName(Tail(kept), done \cup { Head(kept).name })

\* lines 35-37: the pairs with a tracking name are left out
QueryParts(query) ==
    PartsByName(SelectSeq(QueryPairs(query), LAMBDA p : Lower(p.name) \notin tracking_params),
                {})

\* the order of Python strings, for the tokens a query part is made of
TokenRank(t) ==
    CASE t = "&" -> 1
      [] t = "1" -> 2
      [] t = "=" -> 3
      [] t = "id" -> 4
      [] t = "page" -> 5
      [] t = "x" -> 6
      [] OTHER -> 7

RECURSIVE LexLeq(_, _)
LexLeq(a, b) ==
    IF a = <<>> THEN TRUE
    ELSE IF b = <<>> THEN FALSE
    ELSE IF Head(a) = Head(b) THEN LexLeq(Tail(a), Tail(b))
    ELSE TokenRank(Head(a)) < TokenRank(Head(b))

\* one part put at its place in a sorted list, after the parts equal to it
InsertAt(sorted, part, k) == SubSeq(sorted, 1, k) \o <<part>> \o SubSeq(sorted, k + 1, Len(sorted))

Insert(sorted, part) ==
    InsertAt(sorted, part, Cardinality({ m \in 1..Len(sorted) : LexLeq(sorted[m], part) }))

\* sorted(query_parts)
RECURSIVE Sorted(_)
Sorted(parts) ==
    IF parts = <<>> THEN <<>>
    ELSE Insert(Sorted(SubSeq(parts, 1, Len(parts) - 1)), parts[Len(parts)])

\* "&".join(parts)
RECURSIVE Join(_)
Join(parts) ==
    IF parts = <<>> THEN <<>>
    ELSE IF Len(parts) = 1 THEN Head(parts)
    ELSE Head(parts) \o <<"&">> \o Join(Tail(parts))

\* urlparse finds a scheme when the text starts "<scheme>://"
HasScheme(u) == Len(u) >= 2 /\ u[2] = "://" /\ u[1] # "://"

\* line 52: f"{scheme}://{netloc}{path}" puts "://" before a text that has
\* no scheme
Rebuilt(head) == IF HasScheme(head) THEN head ELSE <<"://">> \o head

\* lines 53-54
WithQuery(normalized, new_query) ==
    IF new_query # <<>> THEN normalized \o <<"?">> \o new_query ELSE normalized

\* lines 34-54, for the text before the fragment
NormalizedFrom(nofrag) ==
    WithQuery(Rebuilt(BeforeFirst(nofrag, "?")),
              Join(Sorted(QueryParts(AfterFirst(nofrag, "?")))))

\* lines 19-56: urlparse cuts the fragment first, then the query
normalize_url(url) ==
    IF url = <<>> THEN <<>>
    ELSE NormalizedFrom(BeforeFirst(Lower(Strip(url)), "#"))

----------------------------------------------------------------------------
(* The documents of the live deduplication *)

\* a title that is None, and an id that is missing
TitleNone == "<None>"
NoId == ""

UrlA == <<"https", "://", "ex.com", "/a">>
UrlATracked == <<"https", "://", "EX.COM", "/a", "?", "utm_source", "=", "x", "#", "top">>
UrlB == <<"https", "://", "ex.com", "/b", "?", "id", "=", "1">>
UrlBTracked ==
    <<"https", "://", "ex.com", "/b", "?", "utm_medium", "=", "x", "&", "id", "=", "1">>
UrlShort == <<"https", "://", "bit.ly", "/b">>

Document(id, url, title, author) ==
    [id |-> id, source_url |-> url, title |-> title, author |-> author]

\* the documents a library is made of (the keys summary, published_date,
\* created_at, tags and updated_at are absent from them)
DocumentSet ==
    { Document("1", UrlA, "Deep Learning Basics", "Ann"),
      Document("2", UrlATracked, TitleNone, ""),
      Document("3", UrlB, "Deep Learning Basic Ideas", "Unknown"),
      Document("4", <<>>, "Deep Learning Basics!", ""),
      Document(NoId, UrlA, "Deep Learning Basics", "Ann"),
      Document("5", UrlShort, "Short", ""),
      Document("2", UrlA, TitleNone, "Ann"),
      Document("6", UrlBTracked, "Cooking with Garlic", "") }

----------------------------------------------------------------------------
(* calculate_title_similarity *)

\* lines 67-71: lower case, punctuation removed, blanks squeezed
normalize_title(title) ==
    CASE title = "Deep Learning Basics" -> "deep learning basics"
      [] title = "Deep Learning Basics!" -> "deep learning basics"
      [] title = "Deep Learning Basic Ideas" -> "deep learning basic ideas"
      [] title = "Cooking with Garlic" -> "cooking with garlic"
      [] title = "Short" -> "short"
      [] title = "Learning Basic Ideas" -> "learning basic ideas"
      [] OTHER -> ""

\* len() of a title and of a normalized title
CharLen(t) ==
    CASE t \in { "Deep Learning Basics", "deep learning basics",
                 "Learning Basic Ideas", "learning basic ideas" } -> 20
      [] t = "Deep Learning Basics!" -> 21
      [] t \in { "Deep Learning Basic Ideas", "deep learning basic ideas" } -> 25
      [] t \in { "Cooking with Garlic", "cooking with garlic" } -> 19
      [] t \in { "Short", "short" } -> 5
      [] OTHER -> 0

\* the characters difflib.SequenceMatcher matches between two normalized
\* titles (the sum of the sizes of get_matching_blocks())
MatchingChars(a, b) ==
    LET pair == { a, b }
    IN  CASE a = b -> CharLen(a)
          [] pair = { "deep learning basics", "deep learning basic ideas" } -> 20
          [] pair = { "deep learning basics", "cooking with garlic" } -> 7
          [] pair = { "deep learning basic ideas", "cooking with garlic" } -> 7
          [] pair = { "deep learning basics", "short" } -> 1
          [] pair = { "deep learning basic ideas", "short" } -> 1
          [] pair = { "cooking with garlic", "short" } -> 2
          [] pair = { "learning basic ideas", "deep learning basics" } -> 15
          [] pair = { "learning basic ideas", "deep learning basic ideas" } -> 20
          [] pair = { "learning basic ideas", "cooking with garlic" } -> 7
          [] pair = { "learning basic ideas", "short" } -> 1
          [] OTHER -> 0

\* lines 61-81, in thousandths: ratio() is 2.0 * matches / (len(a) + len(b))
calculate_title_similarity(title1, title2) ==
    IF title1 \in { TitleNone, "" } \/ title2 \in { TitleNone, "" } THEN 0
    ELSE LET norm_title1 == normalize_title(title1)
             norm_title2 == normalize_title(title2)
         IN  IF norm_title1 = "" \/ norm_title2 = "" THEN 0
             ELSE (2000 * MatchingChars(norm_title1, norm_title2))
                      \div (CharLen(norm_title1) + CharLen(norm_title2))

\* line 16, in thousandths
similarity_threshold == 800

----------------------------------------------------------------------------
(* calculate_metadata_quality_score *)

\* line 134: the domains of shortened URLs
IsShortUrl(url) == \E k \in 1..Len(url) : url[k] \in { "bit.ly", "t.co", "tinyurl", "short" }

\* lines 83-153
calculate_metadata_quality_score(document) ==
    LET title == IF document.title = TitleNone THEN "" ELSE document.title
        title_score == IF title = "" THEN 0
                       ELSE IF CharLen(title) > 10 THEN 25
                       ELSE IF CharLen(title) > 5 THEN 15
                       ELSE 5
        author_score == IF document.author # "" /\ document.author # "Unknown" THEN 15 ELSE 0
        url_score == IF document.source_url = <<>> THEN 0
                     ELSE IF IsShortUrl(document.source_url) THEN 5
                     ELSE 10
    IN  Min(title_score + author_score + url_score, 100)

----------------------------------------------------------------------------
(* find_duplicate_groups *)

\* lines 164-173: the key of the document in url_groups, <<>> when it does
\* not enter the URL grouping
UrlKey(doc) ==
    IF doc.id # NoId /\ doc.source_url # <<>> THEN normalize_url(doc.source_url) ELSE <<>>

\* the keys of url_groups, in order of insertion
RECURSIVE UrlKeys(_, _)
UrlKeysFrom(docs, seen, key) ==
    IF key # <<>> /\ key \notin seen
    THEN <<key>> \o UrlKeys(Tail(docs), seen \cup { key })
    ELSE UrlKeys(Tail(docs), seen)

UrlKeys(docs, seen) ==
    IF docs = <<>> THEN <<>> ELSE UrlKeysFrom(docs, seen, UrlKey(Head(docs)))

UrlGroup(docs, key) == SelectSeq(docs, LAMBDA doc : UrlKey(doc) = key)

IdsOf(docs) == { docs[k].id : k \in 1..Len(docs) }

\* a group is reported and its ids are not marked
WithGroupUnmarked(st, group) ==
    [duplicate_groups |-> Append(st.duplicate_groups, group),
     processed_ids |-> st.processed_ids]

\* lines 190-191 and 213-214: a group is reported, its ids are processed
WithGroup(st, group) ==
    [duplicate_groups |-> Append(st.duplicate_groups, group),
     processed_ids |-> st.processed_ids \cup IdsOf(group)]

\* lines 186-191: st holds duplicate_groups and processed_ids
RECURSIVE UrlPhase(_, _, _)
\* a URL phase that reports every bucket of two documents or more
UrlPhaseWithEveryBucket(docs, keys, st, group) ==
    IF Len(group) > 1
    THEN UrlPhase(docs, Tail(keys), WithGroup(st, group))
    ELSE UrlPhase(docs, Tail(keys), st)

UrlPhaseWith(docs, keys, st, group) ==
    IF Len(group) > 1 /\ IdsOf(group) \cap st.processed_ids = {}
    THEN UrlPhase(docs, Tail(keys), WithGroup(st, group))
    ELSE UrlPhase(docs, Tail(keys), st)

UrlPhase(docs, keys, st) ==
    IF keys = <<>> THEN st ELSE UrlPhaseWith(docs, keys, st, UrlGroup(docs, Head(keys)))

\* doc1 and the later documents like it, claimed or not
SimilarDocsClaimedToo(remaining_docs, n, processed_ids) ==
    <<remaining_docs[n]>> \o
    SelectSeq(SubSeq(remaining_docs, n + 1, Len(remaining_docs)),
              LAMBDA doc2 :
                  calculate_title_similarity(remaining_docs[n].title, doc2.title)
                      >= similarity_threshold)

\* lines 201-210: doc1 and the later documents like it
SimilarDocs(remaining_docs, n, processed_ids) ==
    <<remaining_docs[n]>> \o
    SelectSeq(SubSeq(remaining_docs, n + 1, Len(remaining_docs)),
              LAMBDA doc2 :
                  /\ doc2.id \notin processed_ids
                  /\ calculate_title_similarity(remaining_docs[n].title, doc2.title)
                         >= similarity_threshold)

\* lines 197-214: n is the place of doc1 in remaining_docs
RECURSIVE TitlePhase(_, _, _)
TitlePhaseWith(remaining_docs, n, st, similar_docs) ==
    IF Len(similar_docs) > 1
    THEN TitlePhase(remaining_docs, n + 1, WithGroup(st, similar_docs))
    ELSE TitlePhase(remaining_docs, n + 1, st)

TitlePhase(remaining_docs, n, st) ==
    IF n > Len(remaining_docs) THEN st
    ELSE IF remaining_docs[n].id \in st.processed_ids
    THEN TitlePhase(remaining_docs, n + 1, st)
    ELSE TitlePhaseWith(remaining_docs, n, st,
                        SimilarDocs(remaining_docs, n, st.processed_ids))

\* lines 194-195: the documents no URL group has claimed
RemainingDocs(docs, processed_ids) == SelectSeq(docs, LAMBDA doc : doc.id \notin processed_ids)

AfterUrlPhase(docs, by_url) ==
    TitlePhase(RemainingDocs(docs, by_url.processed_ids), 1, by_url).duplicate_groups

\* lines 155-217
find_duplicate_groups(docs) ==
    AfterUrlPhase(docs, UrlPhase(docs, UrlKeys(docs, {}),
                                 [duplicate_groups |-> <<>>, processed_ids |-> {}]))

----------------------------------------------------------------------------
(* select_best_document, analyze_duplicates *)

\* a stable sort told to put the later of two equal scores first
PlaceByScoreTiesLast(sorted, score) ==
    Cardinality({ m \in 1..Len(sorted) : calculate_metadata_quality_score(sorted[m]) > score })

\* line 231: a document goes after the documents whose score is not lower
PlaceByScore(sorted, score) ==
    Cardinality({ m \in 1..Len(sorted) : calculate_metadata_quality_score(sorted[m]) >= score })

PutAt(sorted, doc, k) == SubSeq(sorted, 1, k) \o <<doc>> \o SubSeq(sorted, k + 1, Len(sorted))

InsertByScore(sorted, doc) ==
    PutAt(sorted, doc, PlaceByScore(sorted, calculate_metadata_quality_score(doc)))

\* line 231: sort(key=score, reverse=True) keeps the order of equal scores
RECURSIVE SortedByScore(_)
SortedByScore(docs) ==
    IF docs = <<>> THEN <<>>
    ELSE InsertByScore(SortedByScore(SubSeq(docs, 1, Len(docs) - 1)), docs[Len(docs)])

BestAndRest(scored_docs) ==
    [best_doc |-> Head(scored_docs), duplicates_to_remove |-> Tail(scored_docs)]

\* lines 219-236, for a group of two documents or more
select_best_document(duplicate_docs) == BestAndRest(SortedByScore(duplicate_docs))

\* lines 266-287: what the analysis says of one document
DocumentInfo(doc) ==
    [id |-> doc.id, title |-> doc.title, url |-> doc.source_url,
     quality_score |-> calculate_metadata_quality_score(doc), author |-> doc.author]

DocumentInfos(docs) == [k \in 1..Len(docs) |-> DocumentInfo(docs[k])]

RECURSIVE SumOf(_)
SumOf(ns) == IF ns = <<>> THEN 0 ELSE Head(ns) + SumOf(Tail(ns))

\* lines 263-276
GroupInfo(n, group, sel) ==
    [group_id |-> n,
     documents_count |-> Len(group),
     best_document |-> DocumentInfo(sel.best_doc),
     duplicates_to_remove |-> DocumentInfos(sel.duplicates_to_remove)]

\* lines 253-289
AnalysisResult(docs, duplicate_groups) ==
    [total_documents |-> Len(docs),
     duplicate_groups |-> Len(duplicate_groups),
     total_duplicates |->
         SumOf([n \in 1..Len(duplicate_groups) |-> Len(duplicate_groups[n]) - 1]),
     groups |-> [n \in 1..Len(duplicate_groups) |->
                    GroupInfo(n, duplicate_groups[n],
                              select_best_document(duplicate_groups[n]))]]

\* lines 238-291
analyze_duplicates(docs) ==
    IF docs = <<>> THEN [error |-> "No documents found"]
    ELSE AnalysisResult(docs, find_duplicate_groups(docs))

----------------------------------------------------------------------------
(* remove_duplicates *)

\* what an operator types at a prompt; EndOfInput is a closed standard input
NotAsked == <<"<not asked>">>
EndOfInput == <<"<EOF>">>
TypedInputs == { <<"yes">>, <<" ", "YES">>, <<"no">>, <<"DELETE">>, <<"DELETE", " ">>, <<>> }

RdInit ==
    /\ documents \in SeqsUpTo(DocumentSet, MaxDocs)
    /\ rd_dry_run \in BOOLEAN
    /\ auto_confirm \in BOOLEAN
    /\ rd_pc = "rd_start"
    /\ analysis = None
    /\ rd_next = 0
    /\ removed_count = 0
    /\ rd_failed = <<>>
    /\ rd_result = None
    /\ rd_calls = <<>>
    /\ confirmation = NotAsked

\* remove_duplicates is not running
RdIdle ==
    /\ documents = <<>>
    /\ rd_dry_run = TRUE
    /\ auto_confirm = FALSE
    /\ rd_pc = "idle"
    /\ analysis = None
    /\ rd_next = 0
    /\ removed_count = 0
    /\ rd_failed = <<>>
    /\ rd_result = None
    /\ rd_calls = <<>>
    /\ confirmation = NotAsked

\* the duplicates of all groups, in the order of the loops of lines 342-343
RECURSIVE DuplicatesToRemove(_)
DuplicatesToRemove(group_infos) ==
    IF group_infos = <<>> THEN <<>>
    ELSE Head(group_infos).duplicates_to_remove \o DuplicatesToRemove(Tail(group_infos))

\* lines 313-323: the titles are sliced for printing, and None has no slice
PrintingRaises(an) ==
    \E g \in 1..Len(an.groups) :
        \/ an.groups[g].best_document.title = TitleNone
        \/ \E d \in 1..Len(an.groups[g].duplicates_to_remove) :
              an.groups[g].duplicates_to_remove[d].title = TitleNone

\* line 325: if dry_run
RdDryRunIgnored == FALSE
IsRdDryRun == rd_dry_run

\* lines 300-336, once the analysis an is made
RdAnalyzed(an) ==
    /\ analysis' = an
    /\ IF "error" \in DOMAIN an
       THEN rd_result' = an /\ rd_pc' = "done"
       ELSE IF an.duplicate_groups = 0
       THEN /\ rd_result' = [message |-> "No duplicate documents found",
                             removed_count |-> 0]
            /\ rd_pc' = "done"
       ELSE IF PrintingRaises(an)
       THEN rd_result' = [raised |-> "TypeError"] /\ rd_pc' = "raised"
       ELSE IF IsRdDryRun
       THEN /\ rd_result' = [analysis |-> an, removed_count |-> 0, dry_run |-> TRUE]
            /\ rd_pc' = "done"
       ELSE /\ rd_result' = rd_result
            /\ rd_pc' = IF auto_confirm THEN "deleting" ELSE "confirm"

\* lines 298-330: the analysis, the early returns, the preview
RdAnalyze ==
    /\ rd_pc = "rd_start"
    /\ RdAnalyzed(analyze_duplicates(documents))
    /\ UNCHANGED <<rdFrame, documents, rd_dry_run, auto_confirm, rd_next, removed_count,
                   rd_failed, rd_calls, confirmation>>

\* lines 333-334: input().strip().lower() against 'yes'
RdAccepts(typed) == Lower(Strip(typed)) = <<"yes">>

\* lines 330-336
RdConfirm ==
    /\ rd_pc = "confirm"
    /\ \E typed \in TypedInputs \cup { EndOfInput } :
          /\ confirmation' = typed
          /\ IF typed = EndOfInput
             THEN rd_result' = [raised |-> "EOFError"] /\ rd_pc' = "raised"
             ELSE IF ~RdAccepts(typed)
             THEN /\ rd_result' = [message |-> "Operation cancelled", removed_count |-> 0]
                  /\ rd_pc' = "done"
             ELSE rd_result' = rd_result /\ rd_pc' = "deleting"
    /\ UNCHANGED <<rdFrame, documents, rd_dry_run, auto_confirm, analysis, rd_next,
                   removed_count, rd_failed, rd_calls>>

\* lines 345-354: the store answers r to the delete of dup
RdDeleted(dup, r) ==
    /\ rd_calls' = Append(rd_calls, [id |-> dup.id, answer |-> r])
    /\ IF r = "ok"
       THEN removed_count' = removed_count + 1 /\ rd_failed' = rd_failed
       ELSE removed_count' = removed_count /\ rd_failed' = Append(rd_failed, dup.id)

\* lines 342-354: one delete call and its answer
RdDelete ==
    /\ rd_pc = "deleting"
    /\ rd_next < Len(DuplicatesToRemove(analysis.groups))
    /\ \E r \in Answers : RdDeleted(DuplicatesToRemove(analysis.groups)[rd_next + 1], r)
    /\ rd_next' = rd_next + 1
    /\ UNCHANGED <<rdFrame, documents, rd_dry_run, auto_confirm, rd_pc, analysis,
                   rd_result, confirmation>>

\* lines 356-368
RdReturn ==
    /\ rd_pc = "deleting"
    /\ rd_next = Len(DuplicatesToRemove(analysis.groups))
    /\ rd_result' = [analysis |-> analysis, removed_count |-> removed_count,
                     failed_deletions |-> rd_failed, dry_run |-> FALSE]
    /\ rd_pc' = "done"
    /\ UNCHANGED <<rdFrame, documents, rd_dry_run, auto_confirm, analysis, rd_next,
                   removed_count, rd_failed, rd_calls, confirmation>>

RdNext ==
    \/ RdAnalyze
    \/ RdConfirm
    \/ RdDelete
    \/ RdReturn

----------------------------------------------------------------------------
(* The duplicates CSV the deletion plan is made from *)

CsvRow(id, g, notes, tags, created_at) ==
    [id |-> id, group_id |-> g, notes |-> notes, tags |-> tags, created_at |-> created_at]

\* created_at as the export prints it, and as other tools print it
Day1Naive == <<"2023-07-01", " ", "10:30:00">>
Day2Naive == <<"2023-07-02", " ", "10:30:00">>
Day1Aware == <<"2023-07-01", "T", "10:30:00", "Z">>
Day2Aware == <<"2023-07-02", "T", "10:30:00", "Z">>
NotADate == <<"yesterday">>

\* the rows a duplicates CSV is made of (the columns title, source_url,
\* author and normalized_url of a row are taken to be determined by its id)
CsvRowSet ==
    { CsvRow(IdA, "1", <<>>, <<>>, Day2Naive),
      CsvRow(IdA, "1", <<"n">>, <<>>, Day1Naive),
      CsvRow(IdB, "1", <<>>, <<>>, Day1Naive),
      CsvRow(Id429, "1", <<" ">>, <<"t">>, <<>>),
      CsvRow(Id404, "1", <<>>, <<>>, NotADate),
      CsvRow(IdA, "2", <<>>, <<"t">>, Day2Aware),
      CsvRow(<<"e">>, "2", <<>>, <<"t">>, Day1Naive),
      CsvRow(<<"f">>, "2", <<"n">>, <<"t">>, Day1Aware),
      CsvRow(<<"h">>, "1", <<"n">>, <<"t">>, Day2Naive),
      CsvRow(<<"g">>, "", <<>>, <<>>, <<>>) }

----------------------------------------------------------------------------
(* _select_best_document_to_keep *)

\* doc.get(field, '').strip() is not empty
HasText(s) == Strip(s) # <<>>

DayRank(day) ==
    CASE day = "2023-07-01" -> 1
      [] day = "2023-07-02" -> 2
      [] OTHER -> 0

\* lines 750-765: the date read from created_at; text with a "T" goes to
\* fromisoformat (a "Z" makes the date aware of its zone), other text to
\* strptime("%Y-%m-%d %H:%M:%S"); ok is FALSE when the text has no date
ParsedDate(created_at) ==
    LET c == Strip(created_at)
        iso == \E k \in 1..Len(c) : c[k] = "T"
    IN  IF c = <<>> THEN [ok |-> FALSE, aware |-> FALSE, at |-> 0]
        ELSE IF iso
        THEN IF Len(c) \in 3..4 /\ DayRank(c[1]) > 0 /\ c[2] = "T" /\ c[3] = "10:30:00"
                  /\ (Len(c) = 4 => c[4] = "Z")
             THEN [ok |-> TRUE, aware |-> Len(c) = 4, at |-> DayRank(c[1])]
             ELSE [ok |-> FALSE, aware |-> FALSE, at |-> 0]
        ELSE IF Len(c) = 3 /\ DayRank(c[1]) > 0 /\ c[2] = " " /\ c[3] = "10:30:00"
        THEN [ok |-> TRUE, aware |-> FALSE, at |-> DayRank(c[1])]
        ELSE [ok |-> FALSE, aware |-> FALSE, at |-> 0]

\* a cascade that skips the restriction
NoRestriction(docs, field) == [only |-> FALSE, docs |-> docs]

\* lines 723-732 and 735-744: one restriction of the cascade; only is the
\* document returned at once, when exactly one has the field
Restriction(docs, field) ==
    LET with == SelectSeq(docs, LAMBDA doc : HasText(doc[field]))
        without == SelectSeq(docs, LAMBDA doc : ~HasText(doc[field]))
    IN  IF with # <<>> /\ without # <<>>
        THEN [only |-> Len(with) = 1, docs |-> with]
        ELSE [only |-> FALSE, docs |-> docs]

\* the documents that reach the date step, <<>> when a restriction returned
AtDateStep(docs) ==
    LET by_notes == Restriction(docs, "notes")
        by_tags == Restriction(by_notes.docs, "tags")
    IN  IF by_notes.only \/ by_tags.only THEN <<>> ELSE by_tags.docs

documents_with_dates(docs) ==
    SelectSeq(AtDateStep(docs), LAMBDA doc : ParsedDate(doc.created_at).ok)

\* lines 771, 774: comparing an aware date with a naive one is a TypeError,
\* and sort() of a list that holds both compares such a pair
DateSortRaises(docs) ==
    LET dated == documents_with_dates(docs)
    IN  \E m, n \in 1..Len(dated) :
            ParsedDate(dated[m].created_at).aware /\ ~ParsedDate(dated[n].created_at).aware

\* lines 767-775: the sort keeps the order of equal dates, in both directions
FirstByDate(dated, newer) ==
    LET At(k) == ParsedDate(dated[k].created_at).at
        Before(m, n) == IF newer THEN At(m) > At(n) ELSE At(m) < At(n)
        k == CHOOSE k \in 1..Len(dated) :
                 /\ \A m \in 1..Len(dated) : ~Before(m, k)
                 /\ \A m \in 1..(k - 1) : Before(k, m)
    IN  dated[k]

\* lines 719-778, when the sort does not raise
select_best_document_to_keep(docs, newer) ==
    LET by_notes == Restriction(docs, "notes")
        by_tags == Restriction(by_notes.docs, "tags")
        dated == documents_with_dates(docs)
    IN  IF by_notes.only THEN by_notes.docs[1]
        ELSE IF by_tags.only THEN by_tags.docs[1]
        ELSE IF dated # <<>> THEN FirstByDate(dated, newer)
        ELSE by_tags.docs[1]

----------------------------------------------------------------------------
(* analyze_deletion_plan, export_deletion_plan and the command plan-deletion *)

PlanInit ==
    /\ duplicates_csv \in { [rows |-> rs] : rs \in SeqsUpTo(CsvRowSet, MaxCsvRows) }
                              \cup { NoFile }
    /\ prefer_newer \in BOOLEAN
    /\ plan_pc = "plan_start"
    /\ groups = <<>>
    /\ plan_g = 0
    /\ deletion_plan = <<>>
    /\ total_to_delete = 0
    /\ plan_result = None
    /\ plan_file = NoFile

\* plan-deletion is not running
PlanIdle ==
    /\ duplicates_csv = NoFile
    /\ prefer_newer = FALSE
    /\ plan_pc = "idle"
    /\ groups = <<>>
    /\ plan_g = 0
    /\ deletion_plan = <<>>
    /\ total_to_delete = 0
    /\ plan_result = None
    /\ plan_file = NoFile

\* lines 671-677: the group ids in order of first appearance, each with its
\* rows in file order; a row without group_id is in no group
RECURSIVE GroupIds(_, _)
GroupIds(rows, seen) ==
    IF rows = <<>> THEN <<>>
    ELSE IF Head(rows).group_id # "" /\ Head(rows).group_id \notin seen
    THEN <<Head(rows).group_id>> \o GroupIds(Tail(rows), seen \cup { Head(rows).group_id })
    ELSE GroupIds(Tail(rows), seen)

GroupsOf(rows) ==
    LET ids == GroupIds(rows, {})
    IN  [n \in 1..Len(ids) |->
            [group_id |-> ids[n],
             documents |-> SelectSeq(rows, LAMBDA row : row.group_id = ids[n])]]

\* lines 664-683
PlanRead ==
    /\ plan_pc = "plan_start"
    /\ IF duplicates_csv = NoFile
       THEN /\ plan_result' = [error |-> "Failed to read CSV file"]
            /\ plan_pc' = "done"
            /\ groups' = groups
       ELSE /\ plan_result' = plan_result
            /\ plan_pc' = "groups"
            /\ groups' = GroupsOf(duplicates_csv.rows)
    /\ UNCHANGED <<planFrame, duplicates_csv, prefer_newer, plan_g, deletion_plan,
                   total_to_delete, plan_file>>

\* line 693: [doc for doc in documents if doc['id'] != best_document['id']]
AllButFirstRow(docs, best_document) == Tail(docs)
documents_to_delete(docs, best_document) ==
    SelectSeq(docs, LAMBDA doc : doc.id # best_document.id)

\* lines 685-705: one turn of the loop over the groups
PlanGroup ==
    /\ plan_pc = "groups"
    /\ plan_g < Len(groups)
    /\ plan_g' = plan_g + 1
    /\ LET group == groups[plan_g + 1]
           docs == group.documents
           best_document == select_best_document_to_keep(docs, prefer_newer)
           to_delete == documents_to_delete(docs, best_document)
       IN  IF Len(docs) <= 1
           THEN UNCHANGED <<plan_pc, deletion_plan, total_to_delete, plan_result>>
           ELSE IF DateSortRaises(docs)
           THEN /\ plan_pc' = "raised"
                /\ plan_result' = [raised |-> "TypeError"]
                /\ UNCHANGED <<deletion_plan, total_to_delete>>
           ELSE /\ deletion_plan' =
                       Append(deletion_plan,
                              [group_id |-> group.group_id,
                               total_documents |-> Len(docs),
                               keep_document |-> best_document,
                               delete_documents |-> to_delete,
                               deletion_count |-> Len(to_delete)])
                /\ total_to_delete' = total_to_delete + Len(to_delete)
                /\ UNCHANGED <<plan_pc, plan_result>>
    /\ UNCHANGED <<planFrame, duplicates_csv, prefer_newer, groups, plan_file>>

\* lines 707-717
PlanReturn ==
    /\ plan_pc = "groups"
    /\ plan_g = Len(groups)
    /\ plan_result' = [total_documents |-> Len(duplicates_csv.rows),
                       duplicate_groups |-> Len(deletion_plan),
                       total_to_delete |-> total_to_delete,
                       groups |-> deletion_plan]
    /\ plan_pc' = "analyzed"
    /\ UNCHANGED <<planFrame, duplicates_csv, prefer_newer, groups, plan_g, deletion_plan,
                   total_to_delete, plan_file>>

\* lines 835-853
get_keep_reason(keep_doc, delete_docs) ==
    LET has_notes == HasText(keep_doc.notes)
        has_tags == HasText(keep_doc.tags)
        deleted_have_notes == \E k \in 1..Len(delete_docs) : HasText(delete_docs[k].notes)
        deleted_have_tags == \E k \in 1..Len(delete_docs) : HasText(delete_docs[k].tags)
    IN  IF has_notes /\ ~deleted_have_notes THEN "Has notes"
        ELSE IF has_tags /\ ~deleted_have_tags THEN "Has tags"
        ELSE IF has_notes /\ deleted_have_notes THEN "Has notes (preferred among notes)"
        ELSE IF has_tags /\ deleted_have_tags THEN "Has tags (preferred among tags)"
        ELSE "Oldest creation date"

PlanRow(g, action, doc, reason) ==
    [group_id |-> g, action |-> action, document_id |-> doc.id, notes |-> doc.notes,
     tags |-> doc.tags, created_at |-> doc.created_at, reason |-> reason]

\* lines 797-826: the KEEP row of each group, then its DELETE rows
RECURSIVE ExportedRows(_)
ExportedRows(plan) ==
    IF plan = <<>> THEN <<>>
    ELSE LET group == Head(plan)
         IN  <<PlanRow(group.group_id, "KEEP", group.keep_document,
                       get_keep_reason(group.keep_document, group.delete_documents))>>
             \o [k \in 1..Len(group.delete_documents) |->
                    PlanRow(group.group_id, "DELETE", group.delete_documents[k],
                            "Duplicate document")]
             \o ExportedRows(Tail(plan))

\* cli.py lines 396-432: no plan is exported when no group has duplicates
PlanExport ==
    /\ plan_pc = "analyzed"
    /\ plan_pc' = "done"
    /\ plan_file' = IF plan_result.duplicate_groups = 0 THEN plan_file
                    ELSE [rows |-> ExportedRows(plan_result.groups)]
    /\ UNCHANGED <<planFrame, duplicates_csv, prefer_newer, groups, plan_g, deletion_plan,
                   total_to_delete, plan_result>>

PlanNext ==
    \/ PlanRead
    \/ PlanGroup
    \/ PlanReturn
    \/ PlanExport

----------------------------------------------------------------------------
(* cli.py: main, remove-duplicates and execute-deletion *)

Commands == { "remove-duplicates", "execute-deletion" }
Options == { "--dry-run", "--execute", "--force" }

Given(opt) == \E k \in 1..Len(argv) : argv[k] = opt

\* cli.py lines 622-626: --dry-run and --execute store into the same
\* dry_run, True and False, and the default is True: the last one given wins
RECURSIVE ParsedDryRun(_)
ParsedDryRun(av) ==
    IF av = <<>> THEN TRUE
    ELSE IF av[Len(av)] = "--dry-run" THEN TRUE
    ELSE IF av[Len(av)] = "--execute" THEN FALSE
    ELSE ParsedDryRun(SubSeq(av, 1, Len(av) - 1))

\* cli.py line 659: --batch-size, default 5
DefaultBatchSize == 5

\* the plans and the libraries the commands are run on
CliPlans == SeqsUpTo(PlanRowSet, MaxCliRows)
CliLibraries == SeqsUpTo(DocumentSet, MaxCliDocs)

\* the engine is not running
ExecIdle ==
    /\ csv_file_path = ExportedPath
    /\ dry_run = TRUE
    /\ batch_size = DefaultBatchSize
    /\ fs = [f \in FileNames |-> NoFile]
    /\ pc = "idle"
    /\ deletion_candidates = <<>>
    /\ i = 0
    /\ j = 0
    /\ successful_deletions = 0
    /\ failed_deletions = 0
    /\ errors = <<>>
    /\ successfully_deleted_ids = {}
    /\ interrupted = FALSE
    /\ deletion_successful = FALSE
    /\ retry_count = 0
    /\ result = None
    /\ calls = <<>>
    /\ intAt = [k |-> 0, in_flight |-> FALSE]
    /\ last_wait = None
    /\ handlers = HandlersBefore
    /\ original_handlers = None

\* no command is running
CliIdle ==
    /\ command = "none"
    /\ argv = <<>>
    /\ connected = TRUE
    /\ cli_pc = "idle"

\* the process starts: a command line, a store, a plan file or a library
CliInit ==
    /\ command \in Commands
    /\ argv \in SeqsUpTo(Options, MaxArgs)
    /\ connected \in BOOLEAN
    /\ cli_pc = "main"
    /\ csv_file_path = ExportedPath
    /\ dry_run = TRUE
    /\ batch_size \in { 1, DefaultBatchSize }
    /\ \E content \in { [rows |-> pl] : pl \in CliPlans } \cup { NoFile } :
          /\ command = "remove-duplicates" => content = NoFile /\ batch_size = DefaultBatchSize
          /\ fs = [f \in FileNames |-> IF f = csv_file_path THEN content ELSE NoFile]
    /\ pc = "idle"
    /\ deletion_candidates = <<>>
    /\ i = 0
    /\ j = 0
    /\ successful_deletions = 0
    /\ failed_deletions = 0
    /\ errors = <<>>
    /\ successfully_deleted_ids = {}
    /\ interrupted = FALSE
    /\ deletion_successful = FALSE
    /\ retry_count = 0
    /\ result = None
    /\ calls = <<>>
    /\ intAt = [k |-> 0, in_flight |-> FALSE]
    /\ last_wait = None
    /\ handlers = HandlersBefore
    /\ original_handlers = None
    /\ documents \in IF command = "remove-duplicates" THEN CliLibraries ELSE { <<>> }
    /\ rd_dry_run = TRUE
    /\ auto_confirm = FALSE
    /\ rd_pc = "idle"
    /\ analysis = None
    /\ rd_next = 0
    /\ removed_count = 0
    /\ rd_failed = <<>>
    /\ rd_result = None
    /\ rd_calls = <<>>
    /\ confirmation = NotAsked

\* cli.py lines 671-716: the connection is verified, the command is looked up
CliMain ==
    /\ cli_pc = "main"
    /\ cli_pc' = IF connected THEN command ELSE "exit"
    /\ UNCHANGED <<execVars, rdVars, planVars, fnVars, command, argv, connected>>

\* cli.py lines 262-281: remove_duplicates is called with dry_run=args.dry_run
\* and auto_confirm=args.force
CliRemoveDuplicates ==
    /\ cli_pc = "remove-duplicates"
    /\ rd_dry_run' = ParsedDryRun(argv)
    /\ auto_confirm' = Given("--force")
    /\ rd_pc' = "rd_start"
    /\ cli_pc' = "in_engine"
    /\ UNCHANGED <<execVars, planVars, fnVars, command, argv, connected, documents, analysis,
                   rd_next, removed_count, rd_failed, rd_result, rd_calls, confirmation>>

\* cli.py line 463: if args.execute and not args.force
AsksNothing == FALSE
AsksForDelete == Given("--execute") /\ ~Given("--force")

\* cli.py lines 455-463
CliExecuteDeletion ==
    /\ cli_pc = "execute-deletion"
    /\ IF fs[csv_file_path] = NoFile
       THEN cli_pc' = "done" /\ UNCHANGED <<dry_run, pc>>
       ELSE /\ dry_run' = ~Given("--execute")
            /\ IF AsksForDelete
               THEN cli_pc' = "confirm" /\ pc' = pc
               ELSE cli_pc' = "in_engine" /\ pc' = "start"
    /\ UNCHANGED <<rdVars, planVars, fnVars, command, argv, connected, csv_file_path, batch_size,
                   fs, execLocals, result, calls, intAt,
                   last_wait, handlers, original_handlers>>

\* cli.py lines 469-479: the phrase is compared as typed
CliConfirm ==
    /\ cli_pc = "confirm"
    /\ \E typed \in TypedInputs \cup { EndOfInput } :
          /\ confirmation' = typed
          /\ IF typed = <<"DELETE">>
             THEN cli_pc' = "in_engine" /\ pc' = "start"
             ELSE cli_pc' = "done" /\ pc' = pc
    /\ UNCHANGED <<planVars, fnVars, command, argv, connected, execInputs, fs, execLocals, result,
                   calls, intAt, documents, rd_dry_run, auto_confirm, rd_pc, analysis,
                   rd_next, removed_count, rd_failed, rd_result, rd_calls,
                   last_wait, handlers, original_handlers>>

\* cli.py lines 283-308 and 481-500: the result is shown, the command ends
CliReturn ==
    /\ cli_pc = "in_engine"
    /\ pc = "done" \/ rd_pc \in { "done", "raised" }
    /\ cli_pc' = "done"
    /\ UNCHANGED <<execVars, rdVars, planVars, fnVars, command, argv, connected>>

CliNext ==
    \/ CliMain
    \/ CliRemoveDuplicates
    \/ CliExecuteDeletion
    \/ CliConfirm
    \/ CliReturn
    \/ ExecNext
    \/ RdNext

----------------------------------------------------------------------------
(* normalize_url_simple, normalize_url_advanced *)

UrlHttpA == <<"http", "://", "ex.com", "/a">>
UrlAQuery == <<"https", "://", "ex.com", "/a", "?", "utm_source", "=", "x">>
UrlASlash == <<"https", "://", "ex.com", "/a", "/">>

\* lines 378-381: a leading 'https://' or 'http://' is cut
DropHttp(u) ==
    IF Len(u) >= 2 /\ u[1] \in { "https", "http" } /\ u[2] = "://"
    THEN SubSeq(u, 3, Len(u))
    ELSE u

\* lines 384-385 and 408-409: one trailing '/' is cut
DropSlash(u) == IF u # <<>> /\ u[Len(u)] = "/" THEN SubSeq(u, 1, Len(u) - 1) ELSE u

\* lines 370-387
normalize_url_simple(url) ==
    IF url = <<>> THEN <<>> ELSE DropSlash(DropHttp(Lower(Strip(url))))

\* netloc and path of urlparse: the text after the scheme, before the query
\* and the fragment
NetlocAndPath(u) == IF HasScheme(u) THEN SubSeq(u, 3, Len(u)) ELSE u

\* lines 389-415
normalize_url_advanced(url) ==
    IF url = <<>> THEN <<>>
    ELSE DropSlash(NetlocAndPath(BeforeFirst(BeforeFirst(Lower(Strip(url)), "#"), "?")))

----------------------------------------------------------------------------
(* find_csv_duplicates, find_csv_duplicates_advanced *)

\* a row of the exported CSV: the columns the analysis reads; a row that
\* ends before its title column has title None
SourceRow(url, title) == [source_url |-> url, title |-> title]

SourceRowSet ==
    { SourceRow(UrlAQuery, "Deep Learning Basics"),
      SourceRow(UrlHttpA, "Deep Learning Basics!"),
      SourceRow(UrlHttpA, "Cooking with Garlic"),
      SourceRow(UrlA, ""),
      SourceRow(UrlB, "Deep Learning Basic Ideas"),
      SourceRow(UrlASlash, TitleNone) }

SourceFiles == { [rows |-> rs] : rs \in SeqsUpTo(SourceRowSet, MaxSourceRows) } \cup { NoFile }

\* lines 430-441: the row with its number, 1-based
Numbered(rows) == [k \in 1..Len(rows) |-> [row_number |-> k, data |-> rows[k]]]

\* lines 433-437: the key of a row, <<>> for a row that is in no group
SimpleKey(row) == normalize_url_simple(Strip(row.source_url))

\* the keys of url_groups in the order they were first seen
RECURSIVE SimpleKeysFrom(_, _)
SimpleKeysFrom(rows, seen) ==
    IF rows = <<>> THEN <<>>
    ELSE IF SimpleKey(Head(rows)) = <<>> \/ SimpleKey(Head(rows)) \in seen
    THEN SimpleKeysFrom(Tail(rows), seen)
    ELSE <<SimpleKey(Head(rows))>>
             \o SimpleKeysFrom(Tail(rows), seen \cup { SimpleKey(Head(rows)) })

\* lines 448-455: the groups of two rows or more
SimpleGroups(docs, keys) ==
    SelectSeq([k \in 1..Len(keys) |->
                  [normalized_url |-> keys[k],
                   documents |-> SelectSeq(docs, LAMBDA doc : SimpleKey(doc.data) = keys[k]),
                   count |-> Len(SelectSeq(docs, LAMBDA doc : SimpleKey(doc.data) = keys[k]))]],
              LAMBDA group : group.count > 1)

\* lines 457-463
CsvAnalysis(rows, duplicate_groups) ==
    [total_documents |-> Len(rows),
     duplicate_groups |-> Len(duplicate_groups),
     total_duplicates |-> SumOf([k \in 1..Len(duplicate_groups) |-> duplicate_groups[k].count - 1]),
     groups |-> duplicate_groups]

\* lines 417-468
find_csv_duplicates(file) ==
    IF file = NoFile THEN [error |-> "Failed to read CSV file"]
    ELSE CsvAnalysis(file.rows, SimpleGroups(Numbered(file.rows), SimpleKeysFrom(file.rows, {})))

\* lines 511-513, 520-522: title and normalized URL of a row
AdvancedKey(row) ==
    IF Strip(row.source_url) # <<>> THEN normalize_url_advanced(Strip(row.source_url)) ELSE <<>>

\* line 528, in thousandths
TitleSimilarity(row1, row2) ==
    IF row1.title # "" /\ row2.title # ""
    THEN calculate_title_similarity(row1.title, row2.title)
    ELSE 0

NoReason == [rule |-> "", similarity |-> 0]

\* an analysis that groups by the normalized URL alone
MatchReasonByUrl(row1, row2) ==
    IF AdvancedKey(row1) # <<>> /\ AdvancedKey(row1) = AdvancedKey(row2)
    THEN [rule |-> "Same URL (no query)", similarity |-> TitleSimilarity(row1, row2)]
    ELSE NoReason

\* lines 524-540: match_reason after doc2 was compared with doc1
MatchReason(row1, row2) ==
    IF TitleSimilarity(row1, row2) > 500
    THEN [rule |-> "Title similarity", similarity |-> TitleSimilarity(row1, row2)]
    ELSE IF /\ AdvancedKey(row1) # <<>>
            /\ AdvancedKey(row2) # <<>>
            /\ AdvancedKey(row1) = AdvancedKey(row2)
            /\ TitleSimilarity(row1, row2) > 500
    THEN [rule |-> "Same URL (no query) + title similarity",
          similarity |-> TitleSimilarity(row1, row2)]
    ELSE NoReason

\* lines 531-539: is_duplicate is set where match_reason is
IsDuplicate(row1, row2) == MatchReason(row1, row2) # NoReason

\* lines 516-518: the rows after row n the inner loop does not skip
Compared(docs, n, processed_indices) ==
    { m \in (n + 1)..Len(docs) : m \notin processed_indices }

Highest(S) == CHOOSE m \in S : \A k \in S : k <= m

\* lines 508-544: the indices of the group of seed n
GroupIndices(docs, n, processed_indices) ==
    { n } \cup { m \in Compared(docs, n, processed_indices) :
                    IsDuplicate(docs[n].data, docs[m].data) }

\* line 559: match_reason is a local of the function that every turn of the
\* inner loop assigns: the group gets what the last row compared left in it
LastMatchReason(docs, n, compared) ==
    MatchReason(docs[n].data, docs[Highest(compared)].data)

\* lines 547-562
AdvancedGroup(docs, n, indices, processed_indices) ==
    [normalized_url |-> AdvancedKey(docs[n].data),
     documents |-> SelectSeq(docs, LAMBDA doc : doc.row_number \in indices),
     count |-> Cardinality(indices),
     match_reason |-> LastMatchReason(docs, n, Compared(docs, n, processed_indices))]

\* lines 504-562: the outer loop from seed n on
RECURSIVE AdvancedGroupsFrom(_, _, _)
AdvancedStep(docs, n, processed_indices, indices) ==
    IF Cardinality(indices) > 1
    THEN <<AdvancedGroup(docs, n, indices, processed_indices)>>
             \o AdvancedGroupsFrom(docs, n + 1, processed_indices \cup indices)
    ELSE AdvancedGroupsFrom(docs, n + 1, processed_indices)

AdvancedGroupsFrom(docs, n, processed_indices) ==
    IF n > Len(docs) THEN <<>>
    ELSE IF n \in processed_indices THEN AdvancedGroupsFrom(docs, n + 1, processed_indices)
    ELSE AdvancedStep(docs, n, processed_indices, GroupIndices(docs, n, processed_indices))

\* lines 511, 520: .strip() of a title that is None raises AttributeError,
\* outside the try block of lines 488-497
AdvancedRaises(file) ==
    file # NoFile /\ \E k \in 1..Len(file.rows) : file.rows[k].title = TitleNone

\* lines 470-577, when nothing raises
find_csv_duplicates_advanced(file) ==
    IF file = NoFile THEN [error |-> "Failed to read CSV file"]
    ELSE [mode |-> "advanced", warning |-> "Review carefully before deletion"]
             @@ CsvAnalysis(file.rows, AdvancedGroupsFrom(Numbered(file.rows), 1, {}))

----------------------------------------------------------------------------
(* The functions of the engine called on their own *)

\* no function is called on its own
FnIdle ==
    /\ fn = "none"
    /\ fn_in = None
    /\ fn_out = None
    /\ fn_pc = "idle"

\* select_best_document called on a group
SelectInit ==
    /\ fn = "select_best_document"
    /\ fn_in \in SeqsUpTo(DocumentSet, MaxGroup)
    /\ fn_out = None
    /\ fn_pc = "call"

\* lines 219-236: a group of one or none is returned as it is
SelectBestDocument ==
    /\ fn = "select_best_document"
    /\ fn_pc = "call"
    /\ fn_out' = IF Len(fn_in) <= 1
                 THEN [best_doc |-> IF fn_in = <<>> THEN None ELSE fn_in[1],
                       duplicates_to_remove |-> <<>>]
                 ELSE select_best_document(fn_in)
    /\ fn_pc' = "done"
    /\ UNCHANGED <<fnFrame, fn, fn_in>>

\* a CSV analysis called on a file
CsvInit ==
    /\ fn \in { "find_csv_duplicates", "find_csv_duplicates_advanced" }
    /\ fn_in \in SourceFiles
    /\ fn_out = None
    /\ fn_pc = "call"

FindCsvDuplicates ==
    /\ fn = "find_csv_duplicates"
    /\ fn_pc = "call"
    /\ fn_out' = find_csv_duplicates(fn_in)
    /\ fn_pc' = "done"
    /\ UNCHANGED <<fnFrame, fn, fn_in>>

FindCsvDuplicatesAdvanced ==
    /\ fn = "find_csv_duplicates_advanced"
    /\ fn_pc = "call"
    /\ IF AdvancedRaises(fn_in)
       THEN fn_out' = [raised |-> "AttributeError"] /\ fn_pc' = "raised"
       ELSE fn_out' = find_csv_duplicates_advanced(fn_in) /\ fn_pc' = "done"
    /\ UNCHANGED <<fnFrame, fn, fn_in>>

UrlNoScheme == <<"ex.com", "/a">>
UrlQuotedAmp ==
    <<"https", "://", "ex.com", "/a", "?", "id", "=", "1", "%26", "utm_source", "%3D", "x">>
UrlQuotedEq == <<"https", "://", "ex.com", "/a", "?", "id", "=", "x", "%3D", "1">>
UrlBlanks == <<" ", "https", "://", "EX.COM", "/a", " ">>

\* the URLs normalize_url is called on
UrlSet ==
    { <<>>, UrlA, UrlATracked, UrlB, UrlBTracked, UrlShort, UrlHttpA, UrlAQuery, UrlASlash,
      UrlNoScheme, UrlQuotedAmp, UrlQuotedEq, UrlBlanks }

\* normalize_url called on a URL, and then on what it returned
NormalizeInit ==
    /\ fn = "normalize_url"
    /\ fn_in \in UrlSet
    /\ fn_out = <<>>
    /\ fn_pc = "call"

\* lines 19-59: fn_out holds what each call returned
NormalizeUrl ==
    /\ fn = "normalize_url"
    /\ fn_pc \in { "call", "again" }
    /\ fn_out' = Append(fn_out, normalize_url(IF fn_pc = "call" THEN fn_in ELSE fn_out[1]))
    /\ fn_pc' = IF fn_pc = "call" THEN "again" ELSE "done"
    /\ UNCHANGED <<fnFrame, fn, fn_in>>

\* libraries in which an id is in two URL buckets, and in which two titles
\* are like a third and unlike each other
GroupingDocumentSet ==
    DocumentSet \cup { Document("6", UrlA, "Cooking with Garlic", ""),
                       Document("7", <<>>, "Learning Basic Ideas", "") }

FindInit ==
    /\ fn = "find_duplicate_groups"
    /\ fn_in \in SeqsUpTo(GroupingDocumentSet, MaxDocs)
    /\ fn_out = None
    /\ fn_pc = "call"

\* lines 155-217
FindDuplicateGroups ==
    /\ fn = "find_duplicate_groups"
    /\ fn_pc = "call"
    /\ fn_out' = find_duplicate_groups(fn_in)
    /\ fn_pc' = "done"
    /\ UNCHANGED <<fnFrame, fn, fn_in>>

FnInit == SelectInit \/ CsvInit \/ NormalizeInit \/ FindInit

FnNext ==
    \/ SelectBestDocument
    \/ FindCsvDuplicates
    \/ FindCsvDuplicatesAdvanced
    \/ NormalizeUrl
    \/ FindDuplicateGroups

----------------------------------------------------------------------------
(* The specifications: one for each entry point *)

\* execute_deletion_plan called on a plan file
Init == ExecInit /\ RdIdle /\ PlanIdle /\ CliIdle /\ FnIdle

Next == ExecNext

Spec == Init /\ [][Next]_vars

\* remove_duplicates called on a list of documents
InitRemove == ExecIdle /\ RdInit /\ PlanIdle /\ CliIdle /\ FnIdle

SpecRemove == InitRemove /\ [][RdNext]_vars

\* plan-deletion run on a duplicates CSV
InitPlan == ExecIdle /\ RdIdle /\ PlanInit /\ CliIdle /\ FnIdle

SpecPlan == InitPlan /\ [][PlanNext]_vars

\* the command line run with remove-duplicates or execute-deletion
InitCli == CliInit /\ PlanIdle /\ FnIdle

SpecCli == InitCli /\ [][CliNext]_vars

\* one function of the engine called on an argument
InitFn == ExecIdle /\ RdIdle /\ PlanIdle /\ CliIdle /\ FnInit

SpecFn == InitFn /\ [][FnNext]_vars

----------------------------------------------------------------------------
(* What the claims speak of, read off the log of delete calls *)

CallIdx == 1..Len(calls)

CallsOf(k) == { c \in CallIdx : calls[c].k = k }

\* candidates no delete call was issued for
Untried == { k \in 1..NCand : CallsOf(k) = {} }

\* the error entry the code appends for a failed call, <<>> when the call
\* succeeded or is treated as rate limited
RecordedEntry(c) ==
    LET id == calls[c].id
        r == calls[c].answer
    IN  IF r = "false" THEN ErrorEntry(id, ApiFailure)
        ELSE IF r \in { "e404", "e429" } /\ ~Contains(ExceptionText(r, id), S429)
        THEN ErrorEntry(id, ExceptionText(r, id))
        ELSE <<>>

DeletedIds == { calls[c].id : c \in { d \in CallIdx : calls[d].answer = "ok" } }

Recorded404Ids ==
    { calls[c].id : c \in { d \in CallIdx : Contains(RecordedEntry(d), S404) } }

ProcessedIds == DeletedIds \cup Recorded404Ids

OriginalRows == fs[csv_file_path].rows

UnprocessedDeleteRowLeft ==
    \E m \in 1..Len(OriginalRows) :
        OriginalRows[m].action = "DELETE" /\ OriginalRows[m].document_id \notin ProcessedIds

ExecReturned == pc = "done" /\ "completion_status" \in DOMAIN result

\* candidate k is a DELETE row of file f
InFile(f, k) ==
    /\ fs[f] # NoFile
    /\ \E m \in 1..Len(fs[f].rows) :
          /\ fs[f].rows[m].action = "DELETE"
          /\ Candidate(fs[f].rows[m]) = deletion_candidates[k]

C4_AsStated ==
    \A c \in CallIdx :
        calls[c].answer \in { "false", "e404" } =>
            /\ Cardinality(CallsOf(calls[c].k)) = 1
            /\ \E e \in 1..Len(errors) :
                  errors[e] = ErrorEntry(calls[c].id,
                                         IF calls[c].answer = "false" THEN ApiFailure
                                         ELSE ExceptionText("e404", calls[c].id))

\* the number of DELETE rows among the first m rows: the candidate of row m
CandOfRow(rows, m) == Cardinality({ n \in 1..m : rows[n].action = "DELETE" })

RECURSIVE RowsAt(_, _, _)
RowsAt(rows, keep, m) ==
    IF m > Len(rows) THEN <<>>
    ELSE (IF m \in keep THEN <<rows[m]>> ELSE <<>>) \o RowsAt(rows, keep, m + 1)

\* C5 as stated: the updated plan holds exactly the KEEP rows and the DELETE
\* rows whose delete call neither succeeded nor was answered 404.
C5_AsStated ==
    (ExecReturned /\ result.updated_plan_file # NoName) =>
        fs[result.updated_plan_file].rows =
            RowsAt(OriginalRows,
                   { m \in 1..Len(OriginalRows) :
                       \/ OriginalRows[m].action = "KEEP"
                       \/ ~\E c \in CallsOf(CandOfRow(OriginalRows, m)) :
                              calls[c].answer \in { "ok", "e404" } },
                   1)

C7_OriginalPlanNeverOverwritten ==
    [][/\ fs'[csv_file_path] = fs[csv_file_path]
       /\ (pc' = "done" /\ "updated_plan_file" \in DOMAIN result')
             => result'.updated_plan_file # csv_file_path]_vars

\* a run that wrote an updated plan and its report
C7_Witness ==
    /\ ExecReturned
    /\ result.updated_plan_file # NoName
    /\ fs[result.updated_plan_file] # NoFile
    /\ fs[ReportName] # NoFile
    /\ fs[csv_file_path] # fs[result.updated_plan_file]

----------------------------------------------------------------------------
(* What the claims say of remove_duplicates *)

RdReturned == rd_pc = "done"

\* C1 as stated: a dry run of remove_duplicates issues no delete call and
\* returns removed_count 0, for every document set.
C1_AsStated ==
    (rd_dry_run /\ RdReturned) =>
        /\ rd_calls = <<>>
        /\ "removed_count" \in DOMAIN rd_result
        /\ rd_result.removed_count = 0

\* C1 amended: a dry run of remove_duplicates issues no delete call; what it
\* returns for a document set that is not empty carries removed_count 0, and
\* for the empty set it returns the error result, which has no removed_count.
C1_DryRunDeletesNothing ==
    rd_dry_run =>
        /\ rd_calls = <<>>
        /\ RdReturned =>
              IF documents = <<>>
              THEN rd_result = [error |-> "No documents found"]
              ELSE "removed_count" \in DOMAIN rd_result /\ rd_result.removed_count = 0

\* a dry run that found two duplicate groups and returned its preview
C1_Witness ==
    /\ rd_dry_run
    /\ RdReturned
    /\ "analysis" \in DOMAIN rd_result
    /\ rd_result.analysis.duplicate_groups = 2
    /\ rd_result.analysis.total_duplicates >= 2
    /\ rd_result.removed_count = 0
    /\ rd_calls = <<>>

----------------------------------------------------------------------------
(* What the claims say of the deletion plan *)

PlanAnalyzed == plan_pc \in { "analyzed", "done" } /\ "groups" \in DOMAIN plan_result

\* the rows of a group in the duplicates CSV
RowsOfGroup(g) == SelectSeq(duplicates_csv.rows, LAMBDA row : row.group_id = g)

PairwiseDistinctIds(docs) ==
    \A m, n \in 1..Len(docs) : m # n => docs[m].id # docs[n].id

\* C8 as stated: in every group of the plan one row is kept and all the
\* other rows are to be deleted: deletion_count is the group size less one.
C8_AsStated ==
    PlanAnalyzed =>
        \A n \in 1..Len(plan_result.groups) :
            LET group == plan_result.groups[n]
            IN  /\ Len(group.delete_documents) = Len(RowsOfGroup(group.group_id)) - 1
                /\ group.deletion_count = Len(RowsOfGroup(group.group_id)) - 1

\* C8 amended: every group of the plan has two rows or more; its
\* keep_document is one of its rows, its delete_documents are the rows whose
\* id is not the id of the keep_document, in file order, and deletion_count
\* is their number: the group size less one when the ids of the group are
\* pairwise distinct; total_to_delete is the sum of the deletion counts; and
\* the exported plan has one KEEP row for each group and one DELETE row for
\* each of its delete_documents.
C8_PlanKeepsOnePerGroup ==
    PlanAnalyzed =>
        /\ \A n \in 1..Len(plan_result.groups) :
              LET group == plan_result.groups[n]
                  docs == RowsOfGroup(group.group_id)
              IN  /\ Len(docs) >= 2
                  /\ group.total_documents = Len(docs)
                  /\ \E k \in 1..Len(docs) : docs[k] = group.keep_document
                  /\ group.delete_documents =
                        SelectSeq(docs, LAMBDA doc : doc.id # group.keep_document.id)
                  /\ group.deletion_count = Len(group.delete_documents)
                  /\ PairwiseDistinctIds(docs) => group.deletion_count = Len(docs) - 1
                  /\ (plan_pc = "done" /\ plan_file # NoFile) =>
                        /\ Len(SelectSeq(plan_file.rows,
                                         LAMBDA row : /\ row.group_id = group.group_id
                                                      /\ row.action = "KEEP")) = 1
                        /\ Len(SelectSeq(plan_file.rows,
                                         LAMBDA row : /\ row.group_id = group.group_id
                                                      /\ row.action = "DELETE"))
                              = group.deletion_count
        /\ plan_result.total_to_delete =
              SumOf([n \in 1..Len(plan_result.groups) |-> plan_result.groups[n].deletion_count])
        /\ plan_result.duplicate_groups = Len(plan_result.groups)

\* a plan of two groups, each with a row to delete, analyzed and exported
C8_Witness ==
    /\ plan_pc = "done"
    /\ plan_file # NoFile
    /\ "groups" \in DOMAIN plan_result
    /\ Len(plan_result.groups) = 2
    /\ \A n \in 1..2 : plan_result.groups[n].deletion_count = 1
    /\ plan_result.total_to_delete = 2

----------------------------------------------------------------------------
(* What the claims say of the command line *)

NoDeleteCall == calls = <<>> /\ rd_calls = <<>>

\* the input the command takes for its phrase: document_deduplicator.py
\* lines 333-334 compare input().strip().lower() with 'yes', cli.py line 470
\* compares the input with 'DELETE'
TypedAnAcceptedPhrase ==
    IF command = "remove-duplicates" THEN Lower(Strip(confirmation)) = <<"yes">>
    ELSE confirmation = <<"DELETE">>

\* C10: the engine is run in dry-run mode unless --execute was given; no
\* delete call reaches the store unless --execute was given and, without
\* --force, the operator typed the confirmation phrase (DELETE for
\* execute-deletion; yes for remove-duplicates, read without regard to letter
\* case and surrounding blanks); any other input, and a closed input, cancels
\* with no delete call.
C10_DeletesOnlyOnRequest ==
    /\ (cli_pc = "in_engine" /\ ~Given("--execute")) =>
          IF command = "remove-duplicates" THEN rd_dry_run ELSE dry_run
    /\ ~NoDeleteCall => Given("--execute") /\ (Given("--force") \/ TypedAnAcceptedPhrase)
    /\ (confirmation # NotAsked /\ ~TypedAnAcceptedPhrase) => NoDeleteCall

\* remove-duplicates --execute without --force: the operator typed yes and
\* a duplicate was deleted
C10_Witness ==
    /\ command = "remove-duplicates"
    /\ Given("--execute")
    /\ ~Given("--force")
    /\ confirmation = <<"yes">>
    /\ removed_count > 0
    /\ Len(rd_calls) > 0

----------------------------------------------------------------------------
(* What the claims say of rate limits *)

\* the delete calls of remove_duplicates the store answered with something
\* other than a success or a 429
RdFailedAnswers == { k \in 1..Len(rd_calls) : rd_calls[k].answer \in { "false", "e404" } }

ExecFailedAnswers == { k \in 1..Len(calls) : calls[k].answer \in { "false", "e404" } }

\* C11 as stated: in both deletion paths a 429 answer is retried and is never
\* recorded as a failed deletion: the failures recorded are answers other
\* than 429.
C11_AsStated ==
    /\ Len(rd_failed) <= Cardinality(RdFailedAnswers)
    /\ failed_deletions <= Cardinality(ExecFailedAnswers)
    /\ Len(errors) <= Cardinality(ExecFailedAnswers)

----------------------------------------------------------------------------
(* What the claims say of the execution report *)

\* the call has returned, whatever it returned
ExecEnded == pc = "done"

ReadOk == "error" \notin DOMAIN result

ReportPersisted == "report" \in DOMAIN fs[ReportName]

----------------------------------------------------------------------------
(* What the claims say of the retry loop *)

\* C13 as stated, in the log of delete calls: an answer that is not a 429
\* ends the retries of its candidate, so that the run goes on to the next
\* candidate and to its end; an answer 429 that is followed by a call is
\* followed by a call for the same candidate.
C13_AsStated ==
    /\ \A c \in CallIdx :
          calls[c].answer \in { "ok", "false", "e404" } =>
              \A d \in CallIdx : d > c => calls[d].k # calls[c].k
    /\ \A c \in CallIdx :
          (calls[c].answer = "e429" /\ c < Len(calls)) => calls[c + 1].k = calls[c].k

----------------------------------------------------------------------------
(* What the claims say of the keeper of a group *)

\* the members of docs whose field holds text
WithText(docs, field) == SelectSeq(docs, LAMBDA doc : HasText(doc[field]))

\* some but not all members hold text in the field
SomeNotAll(docs, field) ==
    WithText(docs, field) # <<>> /\ Len(WithText(docs, field)) < Len(docs)

\* the members left after the notes restriction
LeftAfterNotes(docs) == IF SomeNotAll(docs, "notes") THEN WithText(docs, "notes") ELSE docs

\* C14: in every group of the plan, when some but not all members have notes
\* (text that is not blank) the keeper has notes, and when some but not all
\* of the members left after the notes restriction have tags the keeper has
\* tags; the keeper is one of the members left; whatever the dates, the
\* order of the rows and prefer_newer.
C14_NotesThenTags ==
    PlanAnalyzed =>
        \A n \in 1..Len(plan_result.groups) :
            LET group == plan_result.groups[n]
                docs == RowsOfGroup(group.group_id)
                left == LeftAfterNotes(docs)
            IN  /\ SomeNotAll(docs, "notes") => HasText(group.keep_document.notes)
                /\ SomeNotAll(left, "tags") => HasText(group.keep_document.tags)
                /\ \E k \in 1..Len(left) : left[k] = group.keep_document

\* a group of three: two members have notes, one of the two has tags and
\* is the keeper although it is the newest and the oldest is preferred
C14_Witness ==
    /\ PlanAnalyzed
    /\ ~prefer_newer
    /\ \E n \in 1..Len(plan_result.groups) :
          LET group == plan_result.groups[n]
              docs == RowsOfGroup(group.group_id)
          IN  /\ Len(docs) = 3
              /\ Len(WithText(docs, "notes")) = 2
              /\ SomeNotAll(LeftAfterNotes(docs), "tags")
              /\ group.keep_document.created_at = Day2Naive
              /\ \E k \in 1..3 : docs[k].created_at = Day1Naive

----------------------------------------------------------------------------
(* What the claims say of select_best_document *)

SelectReturned == fn = "select_best_document" /\ fn_pc = "done"

\* how many times doc is in docs
CountIn(docs, doc) == Cardinality({ k \in 1..Len(docs) : docs[k] = doc })

\* the place of the first document of the highest score
FirstBest(docs) ==
    CHOOSE k \in 1..Len(docs) :
        /\ \A m \in 1..Len(docs) :
              calculate_metadata_quality_score(docs[m]) <= calculate_metadata_quality_score(docs[k])
        /\ \A m \in 1..(k - 1) :
              calculate_metadata_quality_score(docs[m]) < calculate_metadata_quality_score(docs[k])

\* C15: for a group of two documents or more the keeper is the first member
\* of the highest quality score, and duplicates_to_remove holds the other
\* members, each as often as the group holds it: one document fewer than the
\* group; none of them has the id of the keeper when the ids of the group
\* are pairwise distinct.
C15_KeeperIsFirstBest ==
    (SelectReturned /\ Len(fn_in) >= 2) =>
        /\ fn_out.best_doc = fn_in[FirstBest(fn_in)]
        /\ Len(fn_out.duplicates_to_remove) = Len(fn_in) - 1
        /\ \A doc \in DocumentSet :
              CountIn(fn_out.duplicates_to_remove, doc) =
                  CountIn(fn_in, doc) - (IF doc = fn_out.best_doc THEN 1 ELSE 0)
        /\ PairwiseDistinctIds(fn_in) =>
              \A k \in 1..Len(fn_out.duplicates_to_remove) :
                  fn_out.duplicates_to_remove[k].id # fn_out.best_doc.id

\* a group of three, the last two of the same highest score: the second
\* document is the keeper
C15_Witness ==
    /\ SelectReturned
    /\ Len(fn_in) = 3
    /\ calculate_metadata_quality_score(fn_in[1]) < calculate_metadata_quality_score(fn_in[2])
    /\ calculate_metadata_quality_score(fn_in[2]) = calculate_metadata_quality_score(fn_in[3])
    /\ fn_in[2] # fn_in[3]
    /\ fn_out.best_doc = fn_in[2]
    /\ Len(fn_out.duplicates_to_remove) = 2

----------------------------------------------------------------------------
(* What the claims say of the CSV analyses *)

CsvAnalyses == { "find_csv_duplicates", "find_csv_duplicates_advanced" }

\* C16 as stated: an input error (a missing file, a row with a missing
\* column) is never reported as a raised exception, and a missing file is
\* reported as a result that carries an error field.
C16_AsStated ==
    (fn \in CsvAnalyses /\ fn_pc # "call") =>
        /\ fn_pc = "done"
        /\ fn_in = NoFile => "error" \in DOMAIN fn_out

\* the two rows of a file of two rows have URLs that differ in scheme and
\* query string only, as https://ex.com/a?utm_source=x and http://ex.com/a
DifferInSchemeAndQuery ==
    /\ fn_in # NoFile
    /\ Len(fn_in.rows) = 2
    /\ { fn_in.rows[1].source_url, fn_in.rows[2].source_url } = { UrlAQuery, UrlHttpA }

\* C17 as stated: such rows are not grouped by find_csv_duplicates and are
\* grouped as one pair by find_csv_duplicates_advanced.
C17_AsStated ==
    (fn \in CsvAnalyses /\ fn_pc = "done" /\ DifferInSchemeAndQuery) =>
        fn_out.duplicate_groups = (IF fn = "find_csv_duplicates" THEN 0 ELSE 1)

\* C17 amended: such rows are not grouped by find_csv_duplicates; by
\* find_csv_duplicates_advanced they are grouped as one pair exactly when
\* the similarity of their titles is above 0.5, whatever their URLs
\* normalize to.
C17_AdvancedGroupsBySimilarTitle ==
    (fn \in CsvAnalyses /\ fn_pc = "done" /\ DifferInSchemeAndQuery) =>
        /\ normalize_url_simple(UrlAQuery) # normalize_url_simple(UrlHttpA)
        /\ normalize_url_advanced(UrlAQuery) = normalize_url_advanced(UrlHttpA)
        /\ fn = "find_csv_duplicates" => fn_out.duplicate_groups = 0
        /\ fn = "find_csv_duplicates_advanced" =>
              IF calculate_title_similarity(fn_in.rows[1].title, fn_in.rows[2].title) > 500
              THEN /\ fn_out.duplicate_groups = 1
                   /\ fn_out.total_duplicates = 1
                   /\ fn_out.groups[1].count = 2
              ELSE fn_out.duplicate_groups = 0

\* the advanced analysis grouped the two rows, whose titles are alike
C17_Witness ==
    /\ fn = "find_csv_duplicates_advanced"
    /\ fn_pc = "done"
    /\ DifferInSchemeAndQuery
    /\ fn_out.duplicate_groups = 1
    /\ fn_out.groups[1].normalized_url = <<"ex.com", "/a">>

\* C18 as stated: every group the advanced analysis reports carries a
\* match_reason that is not empty and names the rule that grouped it.
C18_AsStated ==
    (fn = "find_csv_duplicates_advanced" /\ fn_pc = "done" /\ fn_in # NoFile) =>
        \A n \in 1..Len(fn_out.groups) :
            fn_out.groups[n].match_reason.rule
                \in { "Title similarity", "Same URL (no query) + title similarity" }

----------------------------------------------------------------------------
(* What the claims say of normalize_url *)

\* C19 as stated: normalize_url is idempotent: called on what it returned
\* it returns the same text.
C19_AsStated ==
    (fn = "normalize_url" /\ fn_pc = "done") => fn_out[2] = fn_out[1]

----------------------------------------------------------------------------
(* What the claims say of the accumulators *)

\* the calls whose answer was counted as a success, and as a failure
CountedOk(k) == { c \in CallsOf(k) : calls[c].answer = "ok" }

CountedFailed(k) == { c \in CallsOf(k) : calls[c].answer # "pending" /\ RecordedEntry(c) # <<>> }

\* x is the beginning of y
IsPrefix(x, y) == Len(x) <= Len(y) /\ SubSeq(y, 1, Len(x)) = x

AccumulatorsConsistent ==
    /\ \A k \in 1..NCand : Cardinality(CountedOk(k)) + Cardinality(CountedFailed(k)) <= 1
    /\ successful_deletions = Cardinality({ c \in CallIdx : calls[c].answer = "ok" })
    /\ failed_deletions = Len(errors)
    /\ successful_deletions + failed_deletions <= NCand
    /\ Cardinality(successfully_deleted_ids) <= successful_deletions
    /\ (ExecReturned /\ result.completion_status = "COMPLETED") =>
          /\ successful_deletions + failed_deletions = NCand
          /\ result.successful_deletions + result.failed_deletions = result.total_candidates
          /\ result.processed = result.total_candidates

AccumulatorsGrow ==
    /\ successful_deletions' >= successful_deletions
    /\ failed_deletions' >= failed_deletions
    /\ IsPrefix(errors, errors')
    /\ successfully_deleted_ids \subseteq successfully_deleted_ids'

\* C20: throughout a run of execute_deletion_plan each candidate is counted
\* at most once, successful_deletions + failed_deletions is at most the
\* number of candidates, failed_deletions is the number of entries of
\* errors, no step lowers a counter or takes back a recorded success or
\* error (a step of the signal handler neither), and a run that returns
\* COMPLETED has counted every candidate.
C20_AccumulatorsStayConsistent ==
    []AccumulatorsConsistent /\ [][AccumulatorsGrow]_vars

\* a run that completed after a success, a retry on 429 and a failure
C20_Witness ==
    /\ ExecReturned
    /\ result.completion_status = "COMPLETED"
    /\ result.successful_deletions >= 1
    /\ result.failed_deletions >= 1
    /\ \E c \in CallIdx : calls[c].answer = "e429"
    /\ result.total_candidates = result.successful_deletions + result.failed_deletions

----------------------------------------------------------------------------
(* plan-deletion followed by execute-deletion --execute on the plan it wrote *)

\* duplicates CSVs in which the document a is in group 1 and in group 2
PipelineRowSet ==
    { CsvRow(IdA, "1", <<"n">>, <<>>, Day1Naive),
      CsvRow(IdB, "1", <<>>, <<>>, Day1Naive),
      CsvRow(IdA, "2", <<>>, <<"t">>, Day2Aware),
      CsvRow(<<"f">>, "2", <<"n">>, <<"t">>, Day1Aware),
      CsvRow(<<"g">>, "", <<>>, <<>>, <<>>) }

PipelineInit ==
    /\ duplicates_csv \in { [rows |-> rs] : rs \in SeqsUpTo(PipelineRowSet, MaxCsvRows) }
    /\ prefer_newer \in BOOLEAN
    /\ plan_pc = "plan_start"
    /\ groups = <<>>
    /\ plan_g = 0
    /\ deletion_plan = <<>>
    /\ total_to_delete = 0
    /\ plan_result = None
    /\ plan_file = NoFile

\* cli.py lines 455-500: execute_deletion_plan(csv_file, dry_run=False,
\* batch_size) is called on the file export_deletion_plan wrote
PipelineExecute ==
    /\ plan_pc = "done"
    /\ plan_file # NoFile
    /\ pc = "idle"
    /\ fs' = [fs EXCEPT ![csv_file_path] = plan_file]
    /\ dry_run' = FALSE
    /\ batch_size' \in 1..2
    /\ pc' = "start"
    /\ UNCHANGED <<execFrame, csv_file_path, execLocals, result, calls, intAt,
                   last_wait, handlers, original_handlers>>

PipelineNext ==
    \/ PlanNext
    \/ PipelineExecute
    \/ ExecNext

InitPipeline == ExecIdle /\ RdIdle /\ PipelineInit /\ CliIdle /\ FnIdle

SpecPipeline == InitPipeline /\ [][PipelineNext]_vars

\* the document ids of the KEEP rows of the exported plan
KeepIds == IF plan_file = NoFile THEN {}
           ELSE { plan_file.rows[k].document_id :
                      k \in { n \in 1..Len(plan_file.rows) : plan_file.rows[n].action = "KEEP" } }

\* C21: after analyze_deletion_plan, export_deletion_plan and
\* execute_deletion_plan in execute mode, no delete call was issued for a
\* document id that is in a KEEP row of the plan, whatever the duplicates CSV
C21_AsStated == \A c \in CallIdx : calls[c].id \notin KeepIds

----------------------------------------------------------------------------
(* What the claims say of the live deduplication *)

\* every document has an id and no two documents have the same
UniqueIds(docs) ==
    \A m, n \in 1..Len(docs) : docs[m].id # NoId /\ (m # n => docs[m].id # docs[n].id)

PairwiseDisjoint(gs) ==
    \A g, h \in 1..Len(gs) : g # h => IdsOf(gs[g]) \cap IdsOf(gs[h]) = {}

BestIds(an) == { an.groups[g].best_document.id : g \in 1..Len(an.groups) }

RemoveIds(an) == IdsOf(DuplicatesToRemove(an.groups))

Analyzed == rd_pc # "rd_start" /\ "groups" \in DOMAIN analysis

\* C22: for documents with unique ids the groups of find_duplicate_groups are
\* pairwise disjoint and have two members or more, no id is a best_document
\* and a duplicate to remove, and remove_duplicates calls delete on no
\* best_document and at most once on a document
C22_GroupsDisjointDeletesOnce ==
    (Analyzed /\ UniqueIds(documents)) =>
        /\ PairwiseDisjoint(find_duplicate_groups(documents))
        /\ \A g \in 1..Len(analysis.groups) : analysis.groups[g].documents_count >= 2
        /\ BestIds(analysis) \cap RemoveIds(analysis) = {}
        /\ \A c \in 1..Len(rd_calls) : rd_calls[c].id \notin BestIds(analysis)
        /\ \A c, d \in 1..Len(rd_calls) : c # d => rd_calls[c].id # rd_calls[d].id

\* two groups of documents with unique ids were found, and the duplicate of
\* each was handed to the store
C22_Witness ==
    /\ rd_pc = "done"
    /\ UniqueIds(documents)
    /\ Analyzed
    /\ Len(analysis.groups) = 2
    /\ Len(rd_calls) = 2

----------------------------------------------------------------------------
(* What the claims say of the waits of execute_deletion_plan *)

\* the wait begun for the last answer, a 429 of the store
WaitsOn429 ==
    /\ last_wait # None
    /\ last_wait.kind = "retry"
    /\ calls[Len(calls)].answer = "e429"

\* C23: on a 429 answer execute_deletion_plan waits the delay of the
\* Retry-After header whenever the answer has one, and the default of 60
\* seconds only when it has none
C23_AsStated ==
    WaitsOn429 =>
        IF last_wait.header.present
        THEN ~last_wait.default /\ ~last_wait.raises
        ELSE last_wait.default /\ last_wait.tenths = 600

\* a delete call is about to be issued after an earlier one
BeforeLaterCall == pc = "call" /\ Len(calls) >= 1

\* C24: in execute mode a wait is taken between every two consecutive delete
\* calls, within a batch and across batches, for every plan and batch size
C24_AsStated == BeforeLaterCall => last_wait # None

----------------------------------------------------------------------------
(* What the claims say of find_duplicate_groups *)

FindReturned == fn = "find_duplicate_groups" /\ fn_pc = "done"

\* the documents with an id that share a normalized URL, two or more
LargeBuckets(docs) ==
    { b \in { UrlGroup(docs, UrlKey(docs[k])) :
                  k \in { n \in 1..Len(docs) : UrlKey(docs[n]) # <<>> } } : Len(b) >= 2 }

IsUrlGroup(docs, g) == g \in LargeBuckets(docs)

Returned(gs, g) == \E n \in 1..Len(gs) : gs[n] = g

\* g has an id of a URL group that was returned and is not g
SharesIdWithUrlGroup(docs, gs, g) ==
    \E m \in 1..Len(gs) :
        IsUrlGroup(docs, gs[m]) /\ gs[m] # g /\ IdsOf(gs[m]) \cap IdsOf(g) # {}

TitleGroupsApart(docs, gs) ==
    \A n \in 1..Len(gs) : ~IsUrlGroup(docs, gs[n]) => ~SharesIdWithUrlGroup(docs, gs, gs[n])

UrlGroupsFirst(docs, gs) ==
    \A m, n \in 1..Len(gs) : (m < n /\ IsUrlGroup(docs, gs[n])) => IsUrlGroup(docs, gs[m])

\* C25 as stated: every bucket of two or more documents with ids that share a
\* non-empty normalized URL is returned as one group of exactly those
\* documents, no document of a URL group is in a title group, and the URL
\* groups come before the title groups
C25_AsStated ==
    FindReturned =>
        /\ \A b \in LargeBuckets(fn_in) : Returned(fn_out, b)
        /\ TitleGroupsApart(fn_in, fn_out)
        /\ UrlGroupsFirst(fn_in, fn_out)

\* C25: every such bucket is returned as one group of exactly its documents
\* unless one of its ids is in a URL group that was returned, the URL groups
\* returned share no id, no document of a URL group is in a title group, and
\* the URL groups come before the title groups
C25_UrlPhase ==
    FindReturned =>
        /\ \A b \in LargeBuckets(fn_in) :
              /\ Returned(fn_out, b) \/ SharesIdWithUrlGroup(fn_in, fn_out, b)
              /\ ~(Returned(fn_out, b) /\ SharesIdWithUrlGroup(fn_in, fn_out, b))
        /\ TitleGroupsApart(fn_in, fn_out)
        /\ UrlGroupsFirst(fn_in, fn_out)

\* a URL group and a title group were returned, and a document of the URL
\* group has a title like the one of the seed of the title group
C25_Witness ==
    /\ FindReturned
    /\ Len(fn_out) = 2
    /\ IsUrlGroup(fn_in, fn_out[1])
    /\ ~IsUrlGroup(fn_in, fn_out[2])
    /\ \E k \in 1..Len(fn_out[1]) :
          calculate_title_similarity(fn_out[1][k].title, fn_out[2][1].title)
              >= similarity_threshold

\* the ids of the groups returned before the group n
ClaimedBefore(gs, n) == UNION { IdsOf(gs[m]) : m \in 1..(n - 1) }

Like(doc1, doc2) == calculate_title_similarity(doc1.title, doc2.title) >= similarity_threshold

\* the document at p with the later documents that are unclaimed and like it
ClusterAt(docs, p, claimed) ==
    <<docs[p]>> \o SelectSeq(SubSeq(docs, p + 1, Len(docs)),
                            LAMBDA doc : doc.id \notin claimed /\ Like(docs[p], doc))

\* p is the first unclaimed document that has a later unclaimed document like it
IsSeedAt(docs, p, claimed) ==
    /\ docs[p].id \notin claimed
    /\ Len(ClusterAt(docs, p, claimed)) >= 2
    /\ \A q \in 1..(p - 1) :
          docs[q].id \notin claimed => Len(ClusterAt(docs, q, claimed)) = 1

TitleGroupIsSeedCluster(docs, gs, n) ==
    \E p \in 1..Len(docs) :
        IsSeedAt(docs, p, ClaimedBefore(gs, n)) /\ gs[n] = ClusterAt(docs, p, ClaimedBefore(gs, n))

\* C26: the title phase is first-seen-wins: every title group is a seed, the
\* first document in input order that is still unclaimed (and has a like
\* one), with exactly the later unclaimed documents whose title is like the
\* seed's at 0.8 or more; no document of a group is in a later group, and no
\* seed with a like document is left over
C26_TitlePhaseFirstSeenWins ==
    FindReturned =>
        /\ \A n \in 1..Len(fn_out) :
              ~IsUrlGroup(fn_in, fn_out[n]) =>
                  /\ TitleGroupIsSeedCluster(fn_in, fn_out, n)
                  /\ IdsOf(fn_out[n]) \cap ClaimedBefore(fn_out, n) = {}
        /\ \A p \in 1..Len(fn_in) : ~IsSeedAt(fn_in, p, ClaimedBefore(fn_out, Len(fn_out) + 1))

\* a title group of a seed and two documents that are like the seed and
\* unlike each other
C26_Witness ==
    /\ FindReturned
    /\ \E n \in 1..Len(fn_out) :
          /\ ~IsUrlGroup(fn_in, fn_out[n])
          /\ Len(fn_out[n]) = 3
          /\ Like(fn_out[n][1], fn_out[n][2])
          /\ Like(fn_out[n][1], fn_out[n][3])
          /\ ~Like(fn_out[n][2], fn_out[n][3])

\* C27: no group find_duplicate_groups returns, URL group or title group,
\* holds a document whose id is missing or empty
C27_AsStated ==
    FindReturned =>
        \A n \in 1..Len(fn_out) : \A k \in 1..Len(fn_out[n]) : fn_out[n][k].id # NoId

----------------------------------------------------------------------------
(* What the claims say of the date step and of the reason of a KEEP row *)

\* the members left after the notes restriction and the tags restriction
LeftAfterTags(docs) ==
    IF SomeNotAll(LeftAfterNotes(docs), "tags")
    THEN WithText(LeftAfterNotes(docs), "tags")
    ELSE LeftAfterNotes(docs)

Dated(docs) == SelectSeq(docs, LAMBDA doc : ParsedDate(doc.created_at).ok)

DateOf(doc) == ParsedDate(doc.created_at).at

\* doc is the first of dated, in input order, with the earliest date (the
\* latest when newer)
IsFirstByDate(dated, doc, newer) ==
    \E k \in 1..Len(dated) :
        /\ dated[k] = doc
        /\ \A m \in 1..Len(dated) :
              IF newer THEN DateOf(dated[m]) <= DateOf(doc) ELSE DateOf(dated[m]) >= DateOf(doc)
        /\ \A m \in 1..(k - 1) : DateOf(dated[m]) # DateOf(doc)

KeeperByDate(left, keeper, newer) ==
    IF Dated(left) # <<>> THEN IsFirstByDate(Dated(left), keeper, newer)
    ELSE keeper = left[1]

KeepersByDate ==
    PlanAnalyzed =>
        \A n \in 1..Len(plan_result.groups) :
            KeeperByDate(LeftAfterTags(RowsOfGroup(plan_result.groups[n].group_id)),
                         plan_result.groups[n].keep_document, prefer_newer)

\* C28: among the members left after the notes and tags restrictions the
\* keeper is the one with the earliest parseable created_at (the latest with
\* prefer_newer), the first in input order on equal dates; a member without
\* a parseable date is kept only when no member left has one, and then the
\* first member left is the keeper; nothing is raised
C28_AsStated == plan_pc # "raised" /\ KeepersByDate

\* the KEEP rows of the exported plan
KeepRows == SelectSeq(plan_file.rows, LAMBDA row : row.action = "KEEP")

\* row has the oldest of the parseable dates of its group
HasOldestDate(row) ==
    /\ ParsedDate(row.created_at).ok
    /\ \A k \in 1..Len(Dated(RowsOfGroup(row.group_id))) :
          DateOf(Dated(RowsOfGroup(row.group_id))[k]) >= DateOf(row)

\* C29: the reason of a KEEP row of the exported plan names the rule that
\* chose the keeper: a reason of notes only on a keeper with notes, a reason
\* of tags only on a keeper with tags, and 'Oldest creation date' only on
\* the member of the group with the oldest parseable created_at
C29_AsStated ==
    (plan_pc = "done" /\ plan_file # NoFile) =>
        \A k \in 1..Len(KeepRows) :
            /\ KeepRows[k].reason \in { "Has notes", "Has notes (preferred among notes)" }
                  => HasText(KeepRows[k].notes)
            /\ KeepRows[k].reason \in { "Has tags", "Has tags (preferred among tags)" }
                  => HasText(KeepRows[k].tags)
            /\ KeepRows[k].reason = "Oldest creation date" => HasOldestDate(KeepRows[k])

----------------------------------------------------------------------------
(* The signal handlers around the deletion loop *)

\* the plan read by the call has no row to delete, or cannot be read
NothingToDelete ==
    \/ fs[csv_file_path] = NoFile
    \/ DeletionCandidates(fs[csv_file_path].rows) = <<>>

====
